---- MODULE Spec2Model ----
(***************************************************************************)
(* Model of the test-plan execution engine of mpy-test-ext                 *)
(* (src/run_test_plan.py): the result tracker TestPlanResults, the pass    *)
(* loop of TestPlanRunner.run and the test cases TestRunner; of the power  *)
(* controller Uhubctl (src/uhubctl.py), which wraps the uhubctl tool and   *)
(* parses its output; of the device registry (src/devs.py) and of the      *)
(* attribute queries on its devices (src/devs_query.py).                   *)
(*                                                                         *)
(* Specifications (they share the variables):                              *)
(*   Spec      one run of TestPlanRunner.run over a test plan, with the    *)
(*             device resolution (get_test_devs) and the exit code of      *)
(*             every test invocation chosen by the environment, which      *)
(*             keeps a device away in MaxAway iterations at most;          *)
(*   BodySpec  the body of the for loop of run, executed for any test in   *)
(*             any order on one TestPlanResults object, with the devices,  *)
(*             the exit code and the calls of every execution recorded;    *)
(*   QuerySpec a new Uhubctl object makes one query (get_status,           *)
(*             scan_hubs_ports or get_hub_port_by_desc) against a tool     *)
(*             that exits 0 and prints any output of up to MaxLines lines; *)
(*   CtlSpec   any sequence of calls on one Uhubctl object, against a tool *)
(*             whose output, exit code and stderr change from call to call;*)
(*   SwitchSpec any sequence of run_action and get_status calls against a  *)
(*             tool that switches the ports of a hub and reports them;     *)
(*   LoadSpec  Device.load_device_list_from_yml (src/devs.py) on a device  *)
(*             registry, with any serial interfaces and tool output;       *)
(*   RunnerSpec a record of the test plan is loaded as a TestRunner and    *)
(*             run once, its processes exiting with any codes and the      *)
(*             directory of scripts listed in any order;                   *)
(*   ResetSpec one pass of the for loop of run, statement by statement:    *)
(*             the gate, the reset of the switchable devices with its      *)
(*             status polls, the invocation and the registration;          *)
(*   FairResetSpec ResetSpec with weak fairness of the pass;               *)
(*   HilSpec   a run in HIL mode, from the loading of the test plan        *)
(*             document to the exit code;                                  *)
(*   DevsSpec  a run in HIL mode whose documents load, with the device   *)
(*             registry and the connected hardware, which changes during   *)
(*             the run;                                                    *)
(*   QuerierSpec one query or query_deep on a Device;                      *)
(*   FilterSpec one query_filtered on a Device.                            *)
(***************************************************************************)
EXTENDS Integers, Sequences, FiniteSets, TLC

VARIABLES
    plan,          \* the TestRunner objects of the run: <<[name, type], ...>>
    test_list,     \* run(): test_list, as indices into plan
    idx,           \* run(): position of the for loop in test_list (next test)
    pc,            \* Spec: "loop" | "summary" | "done" | "raised"; BodySpec: "body" | "observed";
                   \* ResetSpec and HilSpec: the statement the run is at
    test_results,  \* the TestPlanResults object
    exit_code,     \* process exit code: <<>> while running, <<c>> once ended
    cur,           \* history: plan index of the test last processed (0: none)
    arg,           \* history: name of the test last processed
    outcome,       \* history: "skip" | "fail" | "pass" of the last iteration
    before,        \* BodySpec: test_results before the observed iteration
    test,          \* BodySpec: the test of the observed iteration
    dut_dev,       \* BodySpec: dut_dev of the observed iteration
    stub_dev,      \* BodySpec: stub_dev of the observed iteration
    ret_code,      \* BodySpec: ret_code of the observed iteration, <<>> unbound
    events,        \* BodySpec: what the observed iteration did, in order
    invocations,   \* history: number of test.run() calls per plan index,
                   \* counted up to InvocationCap
    clean,         \* history: per plan index, never skipped and never exit 0
    ever_skipped,  \* history: plan indices registered as skipped so far
    pass_start,    \* Spec, history: test_results when the current pass began
    away,          \* Spec, environment: the number of iterations in which it
                   \* can still keep a device of the test away
    niter,         \* BodySpec: number of iterations before the observed one
    uhub_lines,    \* the lines the uhubctl tool printed at its last invocation
    last_cmd_output, \* Uhubctl.last_cmd_output, as a sequence of characters
    call,          \* history: the last call on the Uhubctl object: its
                   \* arguments, the argument vector and the answer of the
                   \* tool, last_cmd_output before the call, and its result
    hub_power,     \* SwitchSpec: per port of the hub, whether it is powered
    trail,         \* SwitchSpec, history: per port, the last actions on it
    dev_yml_dict,  \* LoadSpec: the device registry document
    comports,      \* LoadSpec: the connected serial interfaces
    dev_obj_list,  \* LoadSpec: <<>> before load_device_list_from_yml
                   \* returns, <<its result>> after
    yml_test,      \* RunnerSpec: one record of the test plan document
    test_runner,   \* RunnerSpec: <<>>, or <<the TestRunner loaded from it>>
    proc_log,      \* RunnerSpec: the processes run and the delays slept by
                   \* test.run, in order
    run_ret,       \* RunnerSpec: <<>>, or <<what test.run returned>>
    dir_listing,   \* RunnerSpec: the files of directory d in the order
                   \* os.walk yields them
    timeout,       \* ResetSpec: timeout of __reset_switchable_devs
    dev_i,         \* ResetSpec: position in devs_to_reset
    test_plan_file,  \* HilSpec: state of the test plan document
    hil_devs_file,   \* HilSpec: state of the device registry document
    test_name_list,  \* HilSpec: the test names given to run
    obj,           \* QuerierSpec: the object of the ObjectAttrQuerier
    qcall          \* QuerierSpec, history: the last query and its result

vars == <<plan, test_list, idx, pc, test_results, exit_code, cur, arg, outcome,
          before, test, dut_dev, stub_dev, ret_code, events,
          invocations, clean, ever_skipped, pass_start, away, niter,
          uhub_lines, last_cmd_output, call,
          hub_power, trail, dev_yml_dict, comports, dev_obj_list,
          yml_test, test_runner, proc_log, run_ret, dir_listing, timeout, dev_i,
          test_plan_file, hil_devs_file, test_name_list, obj, qcall>>

\* what only BodySpec records
body_vars == <<before, test, dut_dev, stub_dev, ret_code, events, niter>>

\* the Uhubctl object, the tool it wraps and the record of the last call
uhub_vars == <<uhub_lines, last_cmd_output, call>>

\* the hub the tool switches, in SwitchSpec
switch_vars == <<hub_power, trail>>

\* the device registry and what is connected, in LoadSpec
load_vars == <<dev_yml_dict, comports, dev_obj_list>>

\* a test case and what running it did, in RunnerSpec
runner_vars == <<yml_test, test_runner, proc_log, run_ret, dir_listing>>

\* the reset of the devices of one test, in ResetSpec
reset_vars == <<timeout, dev_i>>

\* the documents and the selection of a run, in HilSpec
doc_vars == <<test_plan_file, hil_devs_file, test_name_list>>

\* the object queried, in QuerierSpec
querier_vars == <<obj, qcall>>

\* the test-plan engine
engine_vars == <<plan, test_list, idx, pc, test_results, exit_code, cur, arg,
                 outcome, before, test, dut_dev, stub_dev, ret_code, events,
                 invocations, clean, ever_skipped, pass_start, away, niter>>

\* what only Spec changes
run_vars == <<plan, test_list, idx, exit_code, cur, invocations, clean,
              ever_skipped, pass_start, away>>

----------------------------------------------------------------------------
(* Bounds of the model *)

\* longest test plan
MaxTests == 2
\* largest --max-retries
MaxRetries == 1
\* the environment of a run keeps a device away (get_test_devs returns a
\* device without address) in MaxAway iterations at most; in every other
\* iteration both devices have an address
MaxAway == 2
\* iterations in a behaviour of BodySpec before the observed one
MaxIterations == 3
\* the invocation counters stop counting here: one more than the largest
\* number of invocations a retry budget allows
InvocationCap == MaxRetries + 2
\* longest output of the uhubctl tool, in lines
MaxLines == 4

----------------------------------------------------------------------------
(* Values *)

None == "None"

Names == {"T1", "T2"}

\* TestRunner.type, run_test_plan.py:17-21 and 219-225
Types == {"single", "single_post_delay", "multi", "multi_stub", "custom"}

\* the tests BodySpec runs the loop body for
TestCases == [name : Names, type : Types]

\* The test cases the plan of a run is drawn from: a one-device and a
\* two-device test. A plan may hold the same case twice, as a plan file may
\* hold two tests of one name.
PlanCases ==
    { [name |-> "T1", type |-> "single"],
      [name |-> "T2", type |-> "multi_stub"] }

\* Device as the run loop reads it: access is an address or None, switch is
\* bound or not (devs.py:91-102)
DutDevs  == [access : {None, "/dev/ttyACM0"}, switch : BOOLEAN]
StubDevs == [access : {None, "/dev/ttyACM1"}, switch : BOOLEAN]
NoDev == [access |-> None, switch |-> FALSE]

\* the devices a run resolves
RunDutDevs  == { d \in DutDevs : ~d.switch }
RunStubDevs == { d \in StubDevs : ~d.switch }

\* exit codes of a test invocation
RetCodes == {0, 1, 2}

----------------------------------------------------------------------------
(* Python list helpers *)

\* x in s
In(x, s) == \E i \in DOMAIN s : s[i] = x

\* number of occurrences of x in s
Count(x, s) == Cardinality({ i \in DOMAIN s : s[i] = x })

\* s without its element at position i
RemoveAt(s, i) == [ k \in 1..(Len(s) - 1) |-> IF k < i THEN s[k] ELSE s[k + 1] ]

\* list.remove(x): removes the first element equal to x
list_remove(s, x) ==
    IF In(x, s)
    THEN RemoveAt(s, CHOOSE i \in DOMAIN s :
                        s[i] = x /\ \A j \in 1..(i - 1) : s[j] # x)
    ELSE s

----------------------------------------------------------------------------
(* TestRunner: the availability gate *)

\* mutant of requires_multiple_devs: type compared for equality with "multi"
requires_multiple_devs_exact(type) == type = "multi"

\* "multi" in self.type, over the five test types
requires_multiple_devs(type) == type \in {"multi", "multi_stub"}

are_supported_devs_available(type, dut_port, stub_port) ==
    IF dut_port = None THEN FALSE
    ELSE IF requires_multiple_devs(type) /\ stub_port = None THEN FALSE
    ELSE TRUE

\* TestPlanRunner.__get_test_ports: the address of each device's access
get_test_ports(dut, stub) == <<dut.access, stub.access>>

\* TestPlanRunner.__reset_switchable_devs: one cycle action per device that
\* has a switch, dut first
reset_switchable_devs(dut, stub) ==
    (IF dut.switch THEN <<"cycle_dut">> ELSE <<>>)
        \o (IF stub.switch THEN <<"cycle_stub">> ELSE <<>>)

----------------------------------------------------------------------------
(* TestPlanResults *)

TestPlanResults(max_retries) ==
    [ pass_test_name_list |-> <<>>,
      skip_test_name_list |-> <<>>,
      fail_test_name_list |-> <<>>,
      max_retries         |-> max_retries,
      retry_test_list     |-> <<>> ]

TestRetries(test_name, retries) == [test_name |-> test_name, retries |-> retries]

\* index of the first entry of the retry list with that name, 0 for None
get_test_retry_index(r, test_name) ==
    IF \E i \in DOMAIN r.retry_test_list : r.retry_test_list[i].test_name = test_name
    THEN CHOOSE i \in DOMAIN r.retry_test_list :
            /\ r.retry_test_list[i].test_name = test_name
            /\ \A j \in 1..(i - 1) : r.retry_test_list[j].test_name # test_name
    ELSE 0

\* mutant of register_skip: the skip also takes the name out of the fail list
\* and its entry out of the retry list
register_skip_forgets(r, test_name) ==
    LET r1 == [r EXCEPT !.fail_test_name_list =
                            SelectSeq(@, LAMBDA n : n # test_name),
                        !.retry_test_list =
                            SelectSeq(@, LAMBDA e : e.test_name # test_name)]
    IN [r1 EXCEPT !.skip_test_name_list = Append(@, test_name)]

\* TestPlanResults.register_skip
register_skip(r, test_name) ==
    [r EXCEPT !.skip_test_name_list = Append(@, test_name)]

\* mutant of register_fail: the first failure already costs one retry
register_fail_first_costs(r, test_name) ==
    IF ~In(test_name, r.fail_test_name_list)
    THEN [r EXCEPT !.fail_test_name_list = Append(@, test_name),
                   !.retry_test_list =
                        Append(@, TestRetries(test_name, r.max_retries - 1))]
    ELSE LET i == get_test_retry_index(r, test_name) IN
         IF i # 0
         THEN [r EXCEPT !.retry_test_list[i].retries = @ - 1]
         ELSE r

\* mutant of register_fail: a repeated failure is recorded as a new failure
register_fail_again(r, test_name) ==
    [r EXCEPT !.fail_test_name_list = Append(@, test_name),
              !.retry_test_list = Append(@, TestRetries(test_name, r.max_retries))]

register_fail(r, test_name) ==
    IF ~In(test_name, r.fail_test_name_list)
    THEN [r EXCEPT !.fail_test_name_list = Append(@, test_name),
                   !.retry_test_list =
                        Append(@, TestRetries(test_name, r.max_retries))]
    ELSE LET i == get_test_retry_index(r, test_name) IN
         IF i # 0
         THEN [r EXCEPT !.retry_test_list[i].retries = @ - 1]
         ELSE r

\* mutant of register_pass: the entry of the name stays in the retry list
register_pass_keep_entry(r, test_name) ==
    LET r1 == IF In(test_name, r.fail_test_name_list)
              THEN [r EXCEPT !.fail_test_name_list = list_remove(@, test_name)]
              ELSE r
    IN IF ~In(test_name, r1.pass_test_name_list)
       THEN [r1 EXCEPT !.pass_test_name_list = Append(@, test_name)]
       ELSE r1

\* mutant of register_pass: the fail list and the retry list are left alone
register_pass_keep_failed(r, test_name) ==
    IF ~In(test_name, r.pass_test_name_list)
    THEN [r EXCEPT !.pass_test_name_list = Append(@, test_name)]
    ELSE r

\* mutant of register_pass: the name is appended to the pass list every time
register_pass_append(r, test_name) ==
    LET r1 == IF In(test_name, r.fail_test_name_list)
              THEN LET i == get_test_retry_index(r, test_name) IN
                   [r EXCEPT !.fail_test_name_list = list_remove(@, test_name),
                             !.retry_test_list =
                                 IF i # 0 THEN list_remove(@, r.retry_test_list[i])
                                 ELSE @]
              ELSE r
    IN [r1 EXCEPT !.pass_test_name_list = Append(@, test_name)]

register_pass(r, test_name) ==
    LET r1 == IF In(test_name, r.fail_test_name_list)
              THEN LET i == get_test_retry_index(r, test_name) IN
                   [r EXCEPT !.fail_test_name_list = list_remove(@, test_name),
                             !.retry_test_list =
                                 IF i # 0 THEN list_remove(@, r.retry_test_list[i])
                                 ELSE @]
              ELSE r
    IN IF ~In(test_name, r1.pass_test_name_list)
       THEN [r1 EXCEPT !.pass_test_name_list = Append(@, test_name)]
       ELSE r1

\* mutant of filter_retries_one: the name of the entry is not compared
RECURSIVE filter_retries_one_any(_, _, _)
filter_retries_one_any(retries, p, t) ==
    IF retries = <<>> THEN <<>>
    ELSE (IF Head(retries).retries > 0 THEN <<t>> ELSE <<>>)
         \o filter_retries_one_any(Tail(retries), p, t)

\* mutant of filter_retries_one: an entry with no retry left still counts
RECURSIVE filter_retries_one_zero(_, _, _)
filter_retries_one_zero(retries, p, t) ==
    IF retries = <<>> THEN <<>>
    ELSE (IF p[t].name = Head(retries).test_name /\ Head(retries).retries >= 0
          THEN <<t>> ELSE <<>>)
         \o filter_retries_one_zero(Tail(retries), p, t)

\* inner loop of filter_retries: test t once per matching retry entry
RECURSIVE filter_retries_one(_, _, _)
filter_retries_one(retries, p, t) ==
    IF retries = <<>> THEN <<>>
    ELSE (IF p[t].name = Head(retries).test_name /\ Head(retries).retries > 0
          THEN <<t>> ELSE <<>>)
         \o filter_retries_one(Tail(retries), p, t)

\* filter_retries over a list of plan indices tl of plan p
RECURSIVE filter_retries(_, _, _)
filter_retries(r, p, tl) ==
    IF tl = <<>> THEN <<>>
    ELSE filter_retries_one(r.retry_test_list, p, Head(tl))
         \o filter_retries(r, p, Tail(tl))

----------------------------------------------------------------------------
(* TestPlanRunner.run: the body of the for loop *)

\* One iteration for test t with the devices get_test_devs resolved and, if
\* the test is invoked, its exit code rc: the tracker afterwards, the outcome,
\* and what was done in order.
loop_body(r, t, dut, stub, rc) ==
    LET ports == get_test_ports(dut, stub) IN
    IF ~are_supported_devs_available(t.type, ports[1], ports[2])
    THEN [ results |-> register_skip(r, t.name),
           outcome |-> "skip",
           events  |-> <<"register_skip">> ]
    ELSE IF rc # 0
    THEN [ results |-> register_fail(r, t.name),
           outcome |-> "fail",
           events  |-> reset_switchable_devs(dut, stub) \o <<"run", "register_fail">> ]
    ELSE [ results |-> register_pass(r, t.name),
           outcome |-> "pass",
           events  |-> reset_switchable_devs(dut, stub) \o <<"run", "register_pass">> ]

----------------------------------------------------------------------------
(* TestPlanRunner.run *)

Plans == UNION { [1..n -> PlanCases] : n \in 0..MaxTests }

NoBody ==
    /\ before = TestPlanResults(0)
    /\ test = [name |-> "", type |-> ""]
    /\ dut_dev = NoDev
    /\ stub_dev = NoDev
    /\ ret_code = <<>>
    /\ events = <<>>
    /\ niter = 0

\* no Uhubctl call is part of the behaviours of the engine specifications
NoUhubctl ==
    /\ uhub_lines = <<>>
    /\ last_cmd_output = <<>>
    /\ call = [op |-> "none"]

\* no switchable hub and no device registry outside SwitchSpec and LoadSpec
NoSwitch == hub_power = <<>> /\ trail = <<>>

\* no pass of Spec and no environment of Spec outside Spec
NoPass == pass_start = <<>> /\ away = 0

NoLoad == dev_yml_dict = <<>> /\ comports = <<>> /\ dev_obj_list = <<>>

\* no test case, reset, document or query outside their specifications
NoRunner ==
    /\ yml_test = <<>>
    /\ test_runner = <<>>
    /\ proc_log = <<>>
    /\ run_ret = <<>>
    /\ dir_listing = <<>>

NoReset == timeout = 0 /\ dev_i = 0

NoDoc == test_plan_file = "" /\ hil_devs_file = "" /\ test_name_list = <<>>

NoQuerier == obj = <<>> /\ qcall = [op |-> "none"]

NoOther == NoRunner /\ NoReset /\ NoDoc /\ NoQuerier

Init ==
    /\ plan \in Plans
    /\ test_list = [i \in 1..Len(plan) |-> i]
    /\ idx = 1
    /\ pc = "loop"
    /\ \E n \in 0..MaxRetries :
          /\ test_results = TestPlanResults(n)
          /\ pass_start = TestPlanResults(n)
    /\ away = MaxAway
    /\ exit_code = <<>>
    /\ cur = 0
    /\ arg = ""
    /\ outcome = ""
    /\ invocations = [i \in 1..Len(plan) |-> 0]
    /\ clean = [i \in 1..Len(plan) |-> TRUE]
    /\ ever_skipped = {}
    /\ NoBody
    /\ NoUhubctl
    /\ NoSwitch
    /\ NoLoad
    /\ NoOther

\* the for loop has a test left in this pass
InPass == pc = "loop" /\ idx <= Len(test_list)

\* the devices get_test_devs can return in this iteration: any while the
\* environment can still keep a device away, otherwise devices with an address
OfferedDuts ==
    IF away > 0 THEN RunDutDevs ELSE { d \in RunDutDevs : d.access # None }
OfferedStubs ==
    IF away > 0 THEN RunStubDevs ELSE { d \in RunStubDevs : d.access # None }

\* line 679: get_test_devs of the subclass raises (TypeError at lines 826 and
\* 914), nothing catches it and the process ends with exit code 1
GetTestDevsRaises ==
    /\ pc' = "raised"
    /\ exit_code' = <<1>>
    /\ outcome' = "raise"
    /\ cur' = test_list[idx]
    /\ arg' = plan[test_list[idx]].name
    /\ UNCHANGED <<test_results, idx, invocations, clean, ever_skipped, away>>

\* lines 679-697 with the devices get_test_devs returned and the exit code
\* of the test
WithDevs(dut, stub, rc) ==
    LET t == test_list[idx]
        b == loop_body(test_results, plan[t], dut, stub, rc)
        o == b.outcome
    IN /\ test_results' = b.results
       /\ outcome' = o
       /\ cur' = t
       /\ arg' = plan[t].name
       /\ idx' = idx + 1
       /\ invocations' =
             IF o # "skip" /\ invocations[t] < InvocationCap
             THEN [invocations EXCEPT ![t] = @ + 1] ELSE invocations
       /\ clean' = IF o # "fail" THEN [clean EXCEPT ![t] = FALSE] ELSE clean
       /\ ever_skipped' = IF o = "skip" THEN ever_skipped \cup {t}
                          ELSE ever_skipped
       /\ away' = IF dut.access = None \/ stub.access = None
                  THEN away - 1 ELSE away
       /\ UNCHANGED <<pc, exit_code>>

\* One iteration of the for loop. The reset of switchable devices leaves no
\* trace in the variables of a run, so the run resolves devices without a
\* switch; BodySpec records the reset.
Iterate ==
    /\ InPass
    /\ \/ GetTestDevsRaises
       \/ \E dut \in OfferedDuts, stub \in OfferedStubs, rc \in RetCodes :
             WithDevs(dut, stub, rc)
    /\ UNCHANGED <<plan, test_list, pass_start>>
    /\ UNCHANGED body_vars
    /\ UNCHANGED <<uhub_vars, switch_vars, load_vars, runner_vars, reset_vars,
                 doc_vars, querier_vars>>

\* end of a pass: the next pass's list, and whether there is a next pass
EndPass ==
    /\ pc = "loop"
    /\ idx > Len(test_list)
    /\ LET next_list == filter_retries(test_results, plan, test_list)
       IN /\ test_list' = next_list
          /\ pc' = IF next_list # <<>> THEN "loop" ELSE "summary"
    /\ idx' = 1
    /\ cur' = 0
    /\ arg' = ""
    /\ outcome' = ""
    /\ pass_start' = test_results
    /\ UNCHANGED <<plan, test_results, exit_code, invocations, clean,
                   ever_skipped, away>>
    /\ UNCHANGED body_vars
    /\ UNCHANGED <<uhub_vars, switch_vars, load_vars, runner_vars, reset_vars,
                 doc_vars, querier_vars>>

\* mutant of final_exit_code: a skipped test fails the run as well
final_exit_code_skip(r) ==
    IF r.fail_test_name_list # <<>> \/ r.skip_test_name_list # <<>> THEN 1 ELSE 0

\* sys.exit(1) if the fail list is not empty; otherwise run() returns and the
\* process ends with code 0
final_exit_code(r) == IF r.fail_test_name_list # <<>> THEN 1 ELSE 0

\* after the loop: the summary and the exit code
Finish ==
    /\ pc = "summary"
    /\ exit_code' = <<final_exit_code(test_results)>>
    /\ pc' = "done"
    /\ UNCHANGED <<plan, test_list, idx, test_results, cur, arg, outcome,
                   invocations, clean, ever_skipped, pass_start, away>>
    /\ UNCHANGED body_vars
    /\ UNCHANGED <<uhub_vars, switch_vars, load_vars, runner_vars, reset_vars,
                 doc_vars, querier_vars>>

Next == Iterate \/ EndPass \/ Finish

Spec == Init /\ [][Next]_vars

----------------------------------------------------------------------------
(* The loop body on its own: any tests, in any order, on one tracker *)

BodyInit ==
    /\ plan = <<>>
    /\ test_list = <<>>
    /\ idx = 1
    /\ pc = "body"
    /\ \E n \in 0..MaxRetries :
          /\ test_results = TestPlanResults(n)
          /\ before = TestPlanResults(n)
    /\ exit_code = <<>>
    /\ cur = 0
    /\ arg = ""
    /\ outcome = ""
    /\ invocations = <<>>
    /\ clean = <<>>
    /\ ever_skipped = {}
    /\ NoPass
    /\ test = [name |-> "", type |-> ""]
    /\ dut_dev = NoDev
    /\ stub_dev = NoDev
    /\ ret_code = <<>>
    /\ events = <<>>
    /\ niter = 0
    /\ NoUhubctl
    /\ NoSwitch
    /\ NoLoad
    /\ NoOther

\* One execution of the loop body for a test, devices and exit code the
\* environment chooses. An observed execution records its inputs and what it
\* did, and is the last one of the behaviour.
Body(observed) ==
    /\ pc = "body"
    /\ observed \/ niter < MaxIterations
    /\ \E t \in TestCases, dut \in DutDevs, stub \in StubDevs, rc \in RetCodes :
        LET b == loop_body(test_results, t, dut, stub, rc)
        IN /\ test_results' = b.results
           /\ arg' = t.name
           /\ outcome' = b.outcome
           /\ IF observed
              THEN /\ before' = test_results
                   /\ test' = t
                   /\ dut_dev' = dut
                   /\ stub_dev' = stub
                   /\ ret_code' = IF b.outcome = "skip" THEN ret_code ELSE <<rc>>
                   /\ events' = b.events
                   /\ pc' = "observed"
                   /\ niter' = niter
              ELSE /\ niter' = niter + 1
                   /\ UNCHANGED <<pc, before, test, dut_dev, stub_dev, ret_code, events>>
    /\ UNCHANGED run_vars
    /\ UNCHANGED <<uhub_vars, switch_vars, load_vars, runner_vars, reset_vars,
                 doc_vars, querier_vars>>

BodyStep == Body(FALSE)

BodyObserved == Body(TRUE)

BodyNext == BodyStep \/ BodyObserved

BodySpec == BodyInit /\ [][BodyNext]_vars

----------------------------------------------------------------------------
(* Text: a Python str is the sequence of its characters *)

\* an optional value: Python's None is Nothing, a value x is Just(x)
Nothing == <<>>
Just(x) == <<x>>

\* the characters str.strip() removes and \S does not match
Whitespace == {" ", "\n", "\t"}

\* the characters \d matches, by value
Digits == <<"0", "1", "2", "3", "4", "5", "6", "7", "8", "9">>

IsDigit(c) == \E d \in DOMAIN Digits : Digits[d] = c

DigitValue(c) == (CHOOSE d \in DOMAIN Digits : Digits[d] = c) - 1

Min(S) == CHOOSE x \in S : \A y \in S : x <= y

RECURSIVE lstrip(_)
lstrip(s) == IF s # <<>> /\ Head(s) \in Whitespace THEN lstrip(Tail(s)) ELSE s

RECURSIVE rstrip(_)
rstrip(s) ==
    IF s # <<>> /\ s[Len(s)] \in Whitespace
    THEN rstrip(SubSeq(s, 1, Len(s) - 1))
    ELSE s

\* str.strip()
strip(s) == rstrip(lstrip(s))

\* str.split(sep) for a separator of one character
RECURSIVE split(_, _)
split(s, sep) ==
    LET P == { i \in DOMAIN s : s[i] = sep }
    IN IF P = {} THEN <<s>>
       ELSE <<SubSeq(s, 1, Min(P) - 1)>>
            \o split(SubSeq(s, Min(P) + 1, Len(s)), sep)

\* p occurs in s at position i
MatchAt(s, i, p) ==
    i + Len(p) - 1 <= Len(s) /\ SubSeq(s, i, i + Len(p) - 1) = p

\* str.startswith(p)
startswith(s, p) == MatchAt(s, 1, p)

\* p in s
contains(s, p) == \E i \in 1..(Len(s) - Len(p) + 1) : MatchAt(s, i, p)

\* length of the longest run of digits of s that starts at position i
RECURSIVE DigitRun(_, _)
DigitRun(s, i) ==
    IF i <= Len(s) /\ IsDigit(s[i]) THEN 1 + DigitRun(s, i + 1) ELSE 0

\* length of the longest run of non-space characters of s that starts at i
RECURSIVE NonSpaceRun(_, _)
NonSpaceRun(s, i) ==
    IF i <= Len(s) /\ s[i] \notin Whitespace THEN 1 + NonSpaceRun(s, i + 1) ELSE 0

\* int(ds) for a string of digits
RECURSIVE int(_)
int(ds) ==
    IF ds = <<>> THEN 0
    ELSE 10 * int(SubSeq(ds, 1, Len(ds) - 1)) + DigitValue(ds[Len(ds)])

\* str(n) of a natural number
RECURSIVE str(_)
str(n) ==
    IF n < 10 THEN <<Digits[n + 1]>>
    ELSE str(n \div 10) \o <<Digits[(n % 10) + 1]>>

\* f"{port}" of an optional port number
fstr(port) == IF port = Nothing THEN <<"N", "o", "n", "e">> ELSE str(port[1])

----------------------------------------------------------------------------
(* The uhubctl tool: what it is called with and what it prints *)

STR_CurrentStatusForHub == <<"C", "u", "r", "r", "e", "n", "t", " ", "s", "t", "a", "t", "u", "s", " ", "f", "o", "r", " ", "h", "u", "b">>
STR_Port == <<"P", "o", "r", "t">>
STR_off == <<" ", "o", "f", "f">>
STR_power == <<" ", "p", "o", "w", "e", "r">>
STR_enable_connect == <<"e", "n", "a", "b", "l", "e", " ", "c", "o", "n", "n", "e", "c", "t">>
STR_NoCompatibleDevices == <<"N", "o", " ", "c", "o", "m", "p", "a", "t", "i", "b", "l", "e", " ", "d", "e", "v", "i", "c", "e", "s", " ", "d", "e", "t", "e", "c", "t", "e", "d", "!">>
STR_uhubctl == <<"u", "h", "u", "b", "c", "t", "l">>
STR_action == <<"-", "-", "a", "c", "t", "i", "o", "n">>
STR_location == <<"-", "-", "l", "o", "c", "a", "t", "i", "o", "n">>
STR_port == <<"-", "-", "p", "o", "r", "t">>
STR_search == <<"-", "-", "s", "e", "a", "r", "c", "h">>

\* Uhubctl.Cmd, by value
Cmd == { <<"o", "n">>, <<"o", "f", "f">>, <<"c", "y", "c", "l", "e">>, <<"t", "o", "g", "g", "l", "e">> }

\* hub locations
HubA == <<"1", "-", "1">>
HubB == <<"2", "-", "1">>
Hubs == {HubA, HubB}

\* port numbers that \d+ can yield
Ports == 0..2

\* the line that opens the section of a hub, and the line of one port
HubEntry(hub, rest) == [kind |-> "hub", hub |-> hub, rest |-> rest]
PortEntry(port, rest) == [kind |-> "port", port |-> port, rest |-> rest]

\* the text of a line, as uhubctl prints it
Render(e) ==
    IF e.kind = "hub"
    THEN STR_CurrentStatusForHub \o <<" ">> \o e.hub \o e.rest
    ELSE IF e.kind = "port"
    THEN <<" ", " ">> \o STR_Port \o <<" ">> \o str(e.port) \o <<":", " ">> \o e.rest
    ELSE e.rest

\* the stdout of the tool: its lines, each ended by a newline
RECURSIVE Stdout(_)
Stdout(ls) ==
    IF ls = <<>> THEN <<>> ELSE Render(Head(ls)) \o <<"\n">> \o Stdout(Tail(ls))

\* lines of the format of the docstrings of uhubctl.py
PortOff == PortEntry(1, <<"0", "0", "0", "0", " ", "o", "f", "f">>)
PortOn == PortEntry(0, <<"0", "1", "0", "0", " ", "p", "o", "w", "e", "r">>)
PortConnected == PortEntry(2, <<"0", "1", "0", "3", " ", "p", "o", "w", "e", "r", " ", "e", "n", "a", "b", "l", "e", " ", "c", "o", "n", "n", "e", "c", "t", " ", "[", "0", "4", "b", "4", ":", "f", "1", "5", "5", " ", "K", "i", "t", "P", "r", "o", "g", "3", "]">>)
PortConnectedOffDesc ==
    PortEntry(1, <<"0", "1", "0", "3", " ", "p", "o", "w", "e", "r", " ", "e", "n", "a", "b", "l", "e", " ", "c", "o", "n", "n", "e", "c", "t", " ", "[", "1", "a", "2", "b", ":", "0", "0", "0", "1", " ", "o", "n", " ", "o", "f", "f", " ", "S", "w", "i", "t", "c", "h", "]">>)
PortOther == PortEntry(2, <<"0", "0", "8", "0">>)
HubALine == HubEntry(HubA, <<" ", "[", "0", "b", "d", "a", ":", "5", "4", "1", "1", " ", "G", "e", "n", "e", "r", "i", "c", " ", "H", "u", "b", "]">>)
HubBLine == HubEntry(HubB, <<" ", "[", "0", "b", "d", "a", ":", "0", "4", "1", "1", " ", "G", "e", "n", "e", "r", "i", "c", " ", "H", "u", "b", "]">>)

Catalogue ==
    { HubALine, HubBLine, PortOff, PortOn, PortConnected,
      PortConnectedOffDesc, PortOther }

\* every output of at most MaxLines lines of the catalogue
Outputs == UNION { [1..n -> Catalogue] : n \in 0..MaxLines }

\* the outputs the tool alternates between in CtlSpec
CtlOutputs ==
    { <<>>, <<HubALine, PortOff>>, <<HubBLine, PortConnected>> }

\* what the tool writes to stderr
Stderrs ==
    { <<>>,
      <<"N", "o", " ", "c", "o", "m", "p", "a", "t", "i", "b", "l", "e", " ", "d", "e", "v", "i", "c", "e", "s", " ", "d", "e", "t", "e", "c", "t", "e", "d", "!", "\n", "R", "u", "n", " ", "w", "i", "t", "h", " ", "-", "h", " ", "t", "o", " ", "g", "e", "t", " ", "u", "s", "a", "g", "e", " ", "i", "n", "f", "o", ".", "\n">>,
      <<"P", "e", "r", "m", "i", "s", "s", "i", "o", "n", " ", "d", "e", "n", "i", "e", "d", "\n">> }

ReturnCodes == {0, 1}

\* the match strings of get_hub_port_by_desc
Descs == { <<"K", "i", "t", "P", "r", "o", "g", "3">>, <<"G", "e", "n", "e", "r", "i", "c">>, <<"p", "o", "w", "e", "r">>, <<"a", "b", "s", "e", "n", "t">> }

\* a completed process: subprocess.run(...) with both streams decoded
Proc(rc, out, err) == [returncode |-> rc, stdout |-> out, stderr |-> err]

----------------------------------------------------------------------------
(* Uhubctl, src/uhubctl.py *)

are_devices_detected(uhubctl_stderr) ==
    ~contains(uhubctl_stderr, STR_NoCompatibleDevices)

\* mutant of run_cmd: with no devices the stdout is captured all the same
run_cmd_keep_stdout(proc) == proc.stdout

\* mutant of run_cmd: with no devices the output of the call before is kept
run_cmd_keep_last(proc) ==
    IF proc.returncode # 0 /\ ~are_devices_detected(proc.stderr)
    THEN last_cmd_output
    ELSE proc.stdout

\* __run_cmd: the value of last_cmd_output when it returns. With no devices
\* detected it returns at line 116; after any other non-zero exit line 119
\* empties the output and line 121 then stores the decoded stdout.
run_cmd(proc) ==
    IF proc.returncode # 0
    THEN IF ~are_devices_detected(proc.stderr)
         THEN <<>>
         ELSE LET emptied == <<>> IN proc.stdout
    ELSE proc.stdout

\* re.search(r'hub (\S+)', s): group 1 of the leftmost match
re_search_hub(s) ==
    LET P == { i \in DOMAIN s :
                 MatchAt(s, i, <<"h", "u", "b", " ">>) /\ NonSpaceRun(s, i + 4) > 0 }
    IN IF P = {} THEN Nothing
       ELSE Just(SubSeq(s, Min(P) + 4, Min(P) + 3 + NonSpaceRun(s, Min(P) + 4)))

\* re.search(r'Port (\d+):', s): group 1 of the leftmost match
re_search_port(s) ==
    LET P == { i \in DOMAIN s :
                 /\ MatchAt(s, i, <<"P", "o", "r", "t", " ">>)
                 /\ DigitRun(s, i + 5) > 0
                 /\ MatchAt(s, i + 5 + DigitRun(s, i + 5), <<":">>) }
    IN IF P = {} THEN Nothing
       ELSE Just(SubSeq(s, Min(P) + 5, Min(P) + 4 + DigitRun(s, Min(P) + 5)))

\* mutant of line_search_update_hub: the first hub header opens the only section
line_search_update_hub_first(output_line, current_hub) ==
    IF /\ current_hub = Nothing
       /\ startswith(output_line, STR_CurrentStatusForHub)
       /\ re_search_hub(output_line) # Nothing
    THEN re_search_hub(output_line)
    ELSE current_hub

line_search_update_hub(output_line, current_hub) ==
    IF /\ startswith(output_line, STR_CurrentStatusForHub)
       /\ re_search_hub(output_line) # Nothing
    THEN re_search_hub(output_line)
    ELSE current_hub

line_search_port(output_line) ==
    IF startswith(output_line, STR_Port) /\ re_search_port(output_line) # Nothing
    THEN Just(int(re_search_port(output_line)[1]))
    ELSE Nothing

\* truth value of an optional str and of an optional int
truthy_str(h) == h # Nothing /\ h[1] # <<>>
truthy_int(p) == p # Nothing /\ p[1] # 0

\* self.last_cmd_output.strip().split('\n')
output_lines(out) == split(strip(out), "\n")

\* mutant of port_status: the power flag is looked at before the off flag
port_status_power_first(line) ==
    IF contains(line, STR_power) /\ contains(line, STR_enable_connect)
    THEN "on connected"
    ELSE IF contains(line, STR_power) THEN "on"
    ELSE IF contains(line, STR_off) THEN "off"
    ELSE "unknown"

\* __output_search_port_status, lines 219-226: the status of the matching line
port_status(line) ==
    IF contains(line, STR_off) THEN "off"
    ELSE IF contains(line, STR_power) /\ contains(line, STR_enable_connect)
    THEN "on connected"
    ELSE IF contains(line, STR_power) THEN "on"
    ELSE "unknown"

\* the for loop of __output_search_port_status
RECURSIVE search_port_status(_, _, _, _)
search_port_status(lines, current_hub, hub, port) ==
    IF lines = <<>> THEN "unknown"
    ELSE LET line == strip(Head(lines))
             h == line_search_update_hub(line, current_hub)
             p == line_search_port(line)
         IN IF hub = h /\ port = p THEN port_status(line)
            ELSE search_port_status(Tail(lines), h, hub, port)

output_search_port_status(out, hub, port) ==
    search_port_status(output_lines(out), Nothing, hub, port)

\* the for loop of __output_scan_hub_ports
RECURSIVE scan_hub_ports(_, _, _)
scan_hub_ports(lines, current_hub, discovered_ports) ==
    IF lines = <<>> THEN discovered_ports
    ELSE LET line == strip(Head(lines))
             h == line_search_update_hub(line, current_hub)
             p == line_search_port(line)
         IN scan_hub_ports(
                Tail(lines), h,
                IF truthy_str(h) /\ truthy_int(p)
                THEN Append(discovered_ports, <<h[1], p[1]>>)
                ELSE discovered_ports)

output_scan_hub_ports(out) == scan_hub_ports(output_lines(out), Nothing, <<>>)

\* the for loop of __output_search_hub_port_by_desc
RECURSIVE search_hub_port_by_desc(_, _, _)
search_hub_port_by_desc(lines, current_hub, desc_match) ==
    IF lines = <<>> THEN <<Nothing, Nothing>>
    ELSE LET line == strip(Head(lines))
             h == line_search_update_hub(line, current_hub)
             p == line_search_port(line)
         IN IF truthy_str(h) /\ truthy_int(p) /\ contains(line, desc_match)
            THEN <<h, p>>
            ELSE search_hub_port_by_desc(Tail(lines), h, desc_match)

output_search_hub_port_by_desc(out, desc_match) ==
    search_hub_port_by_desc(output_lines(out), Nothing, desc_match)

\* mutant of run_action_cmd: --port comes before --location
run_action_cmd_port_first(action, hub, port) ==
    <<STR_action, action>>
    \o (IF port # Nothing THEN <<STR_port, fstr(port)>> ELSE <<>>)
    \o (IF hub # Nothing THEN <<STR_location, hub[1]>> ELSE <<>>)

\* run_action, lines 41-45: the arguments of the invocation
run_action_cmd(action, hub, port) ==
    <<STR_action, action>>
    \o (IF hub # Nothing THEN <<STR_location, hub[1]>> ELSE <<>>)
    \o (IF port # Nothing THEN <<STR_port, fstr(port)>> ELSE <<>>)

\* the argument vector subprocess.run is given
uhub_cmd(cmd_args) == <<STR_uhubctl>> \o cmd_args

\* run_action(action, hub, port) against a tool that answers with proc
run_action(action, hub, port, proc) ==
    /\ last_cmd_output' = run_cmd(proc)
    /\ call' = [op |-> "run_action", action |-> action, hub |-> hub,
                port |-> port, proc |-> proc, before |-> last_cmd_output,
                argv |-> uhub_cmd(run_action_cmd(action, hub, port)),
                result |-> Nothing]

\* get_status, line 77: the arguments of the invocation
get_status_cmd(hub, port) == <<STR_location, hub[1], STR_port, fstr(port)>>

\* mutant of get_status: the status is read from the output captured before
\* the invocation
get_status_stale(hub, port, proc) ==
    /\ last_cmd_output' = run_cmd(proc)
    /\ call' = [op |-> "get_status", hub |-> hub, port |-> port, proc |-> proc,
                before |-> last_cmd_output,
                argv |-> uhub_cmd(get_status_cmd(hub, port)),
                result |-> output_search_port_status(last_cmd_output, hub, port)]

\* get_status(hub, port) against a tool that answers with proc
get_status(hub, port, proc) ==
    /\ last_cmd_output' = run_cmd(proc)
    /\ call' = [op |-> "get_status", hub |-> hub, port |-> port, proc |-> proc,
                before |-> last_cmd_output,
                argv |-> uhub_cmd(get_status_cmd(hub, port)),
                result |-> output_search_port_status(run_cmd(proc), hub, port)]

\* scan_hubs_ports() against a tool that answers with proc
scan_hubs_ports(proc) ==
    /\ last_cmd_output' = run_cmd(proc)
    /\ call' = [op |-> "scan_hubs_ports", proc |-> proc,
                before |-> last_cmd_output,
                argv |-> uhub_cmd(<<>>),
                result |-> output_scan_hub_ports(run_cmd(proc))]

\* get_hub_port_by_desc(desc_match) against a tool that answers with proc
get_hub_port_by_desc(desc_match, proc) ==
    /\ last_cmd_output' = run_cmd(proc)
    /\ call' = [op |-> "get_hub_port_by_desc", desc_match |-> desc_match,
                proc |-> proc, before |-> last_cmd_output,
                argv |-> uhub_cmd(<<STR_search, desc_match>>),
                result |-> output_search_hub_port_by_desc(run_cmd(proc), desc_match)]

\* the engine takes no part in the behaviours of the controller specifications
NoEngine ==
    /\ plan = <<>>
    /\ test_list = <<>>
    /\ idx = 1
    /\ pc = "uhubctl"
    /\ test_results = TestPlanResults(0)
    /\ exit_code = <<>>
    /\ cur = 0
    /\ arg = ""
    /\ outcome = ""
    /\ invocations = <<>>
    /\ clean = <<>>
    /\ ever_skipped = {}
    /\ NoPass
    /\ NoBody

----------------------------------------------------------------------------
(* One query of a new Uhubctl object against a tool that exits 0 *)

\* Uhubctl.__init__, and the output the tool is going to print
QueryInit ==
    /\ uhub_lines \in Outputs
    /\ last_cmd_output = <<>>
    /\ call = [op |-> "none"]
    /\ NoEngine
    /\ NoSwitch
    /\ NoLoad
    /\ NoOther

\* the tool prints its lines and exits 0
ToolOk == Proc(0, Stdout(uhub_lines), <<>>)

QueryStatus ==
    /\ call.op = "none"
    /\ \E h \in Hubs, p \in Ports : get_status(Just(h), Just(p), ToolOk)
    /\ UNCHANGED uhub_lines
    /\ UNCHANGED <<engine_vars, switch_vars, load_vars, runner_vars, reset_vars,
                 doc_vars, querier_vars>>

QueryScan ==
    /\ call.op = "none"
    /\ scan_hubs_ports(ToolOk)
    /\ UNCHANGED uhub_lines
    /\ UNCHANGED <<engine_vars, switch_vars, load_vars, runner_vars, reset_vars,
                 doc_vars, querier_vars>>

QueryDesc ==
    /\ call.op = "none"
    /\ \E d \in Descs : get_hub_port_by_desc(d, ToolOk)
    /\ UNCHANGED uhub_lines
    /\ UNCHANGED <<engine_vars, switch_vars, load_vars, runner_vars, reset_vars,
                 doc_vars, querier_vars>>

QueryNext == QueryStatus \/ QueryScan \/ QueryDesc

QuerySpec == QueryInit /\ [][QueryNext]_vars

----------------------------------------------------------------------------
(* Any calls on one Uhubctl object against a tool that may fail *)

CtlInit ==
    /\ uhub_lines = <<>>
    /\ last_cmd_output = <<>>
    /\ call = [op |-> "none"]
    /\ NoEngine
    /\ NoSwitch
    /\ NoLoad
    /\ NoOther

\* the answers of the tool to one invocation
CtlProcs(out) == { Proc(rc, Stdout(out), err) : rc \in ReturnCodes, err \in Stderrs }

CtlRunAction ==
    /\ \E out \in CtlOutputs :
          /\ uhub_lines' = out
          /\ \E proc \in CtlProcs(out), a \in Cmd,
                h \in {Nothing, Just(HubA)}, p \in {Nothing, Just(1)} :
                run_action(a, h, p, proc)
    /\ UNCHANGED <<engine_vars, switch_vars, load_vars, runner_vars, reset_vars,
                 doc_vars, querier_vars>>

CtlGetStatus ==
    /\ \E out \in CtlOutputs :
          /\ uhub_lines' = out
          /\ \E proc \in CtlProcs(out), h \in Hubs, p \in {1, 2} :
                get_status(Just(h), Just(p), proc)
    /\ UNCHANGED <<engine_vars, switch_vars, load_vars, runner_vars, reset_vars,
                 doc_vars, querier_vars>>

CtlScan ==
    /\ \E out \in CtlOutputs :
          /\ uhub_lines' = out
          /\ \E proc \in CtlProcs(out) : scan_hubs_ports(proc)
    /\ UNCHANGED <<engine_vars, switch_vars, load_vars, runner_vars, reset_vars,
                 doc_vars, querier_vars>>

CtlDesc ==
    /\ \E out \in CtlOutputs :
          /\ uhub_lines' = out
          /\ \E proc \in CtlProcs(out), d \in {<<"K", "i", "t", "P", "r", "o", "g", "3">>, <<"a", "b", "s", "e", "n", "t">>} :
                get_hub_port_by_desc(d, proc)
    /\ UNCHANGED <<engine_vars, switch_vars, load_vars, runner_vars, reset_vars,
                 doc_vars, querier_vars>>

CtlNext == CtlRunAction \/ CtlGetStatus \/ CtlScan \/ CtlDesc

CtlSpec == CtlInit /\ [][CtlNext]_vars

----------------------------------------------------------------------------
(* A tool that applies the actions to a hub and reports its ports *)

\* the ports of the hub
SwitchPorts == 1..2

\* a line of the tool that is neither a hub header nor a port line
TextEntry(rest) == [kind |-> "text", rest |-> rest]

\* the value that follows a flag on the command line, if the flag is there
tool_arg(argv, flag) ==
    LET at == { i \in 1..(Len(argv) - 1) : argv[i] = flag }
    IN IF at = {} THEN Nothing ELSE Just(argv[Min(at) + 1])

\* the ports a command line selects: those of the hub at --location (every
\* hub without it) with the number of --port (every port without it)
tool_ports(argv) ==
    LET l == tool_arg(argv, STR_location)
        p == tool_arg(argv, STR_port)
    IN { q \in SwitchPorts :
            /\ l = Nothing \/ l[1] = HubA
            /\ p = Nothing \/ int(p[1]) = q }

\* the power of a port after an action: cycle is off, then on
tool_power(action, powered) ==
    IF action = <<"o", "f", "f">> THEN FALSE
    ELSE IF action = <<"t", "o", "g", "g", "l", "e">> THEN ~powered
    ELSE TRUE

\* the power of the ports after the command line is carried out
tool_apply(argv, power) ==
    LET a == tool_arg(argv, STR_action)
    IN [ q \in SwitchPorts |->
            IF a # Nothing /\ q \in tool_ports(argv)
            THEN tool_power(a[1], power[q])
            ELSE power[q] ]

\* the line of a port: off, powered, or powered with the device of the test
\* enumerated on it (att: the devices on powered ports have enumerated)
tool_port_line(q, powered, attached) ==
    PortEntry(q, IF ~powered THEN PortOff.rest
                 ELSE IF attached THEN PortConnected.rest
                 ELSE PortOn.rest)

RECURSIVE tool_port_lines(_, _, _)
tool_port_lines(ports, power, att) ==
    IF ports = {} THEN <<>>
    ELSE LET q == Min(ports)
         IN <<tool_port_line(q, power[q], att)>>
            \o tool_port_lines(ports \ {q}, power, att)

\* the report that follows a request
tool_new_status(ports, power, att) ==
    <<TextEntry(<<"N", "e", "w", " ", "s", "t", "a", "t", "u", "s", " ", "f", "o", "r", " ", "h", "u", "b", " ", "1", "-", "1", " ", "[", "0", "b", "d", "a", ":", "5", "4", "1", "1", " ", "G", "e", "n", "e", "r", "i", "c", " ", "H", "u", "b", "]">>)>>
    \o tool_port_lines(ports, power, att)

\* what the tool prints: the status of the selected ports and, with an
\* action, each request it sent and the status that followed it
tool_lines(argv, power, att) ==
    LET ports == tool_ports(argv)
        a == tool_arg(argv, STR_action)
        current == <<HubALine>> \o tool_port_lines(ports, power, att)
        all_off == [ q \in SwitchPorts |-> power[q] /\ q \notin ports ]
        sent_off == TextEntry(<<"S", "e", "n", "t", " ", "p", "o", "w", "e", "r", " ", "o", "f", "f", " ", "r", "e", "q", "u", "e", "s", "t">>)
        sent_on == TextEntry(<<"S", "e", "n", "t", " ", "p", "o", "w", "e", "r", " ", "o", "n", " ", "r", "e", "q", "u", "e", "s", "t">>)
    IN IF ports = {} THEN <<>>
       ELSE IF a = Nothing THEN current
       ELSE IF a[1] = <<"c", "y", "c", "l", "e">>
       THEN current
            \o <<sent_off>> \o tool_new_status(ports, all_off, att)
            \o <<sent_on>> \o tool_new_status(ports, tool_apply(argv, power), att)
       ELSE current
            \o <<IF tool_apply(argv, power)[Min(ports)] THEN sent_on ELSE sent_off>>
            \o tool_new_status(ports, tool_apply(argv, power), att)

\* the tool carried out the command line and exits 0
tool_proc(argv, power, att) == Proc(0, Stdout(tool_lines(argv, power, att)), <<>>)

\* no action was run on a port yet
NoTrail == [prev |-> Nothing, last |-> Nothing]

\* a new Uhubctl object, and a hub whose ports are powered or not
SwitchInit ==
    /\ uhub_lines = <<>>
    /\ last_cmd_output = <<>>
    /\ call = [op |-> "none"]
    /\ hub_power \in [SwitchPorts -> BOOLEAN]
    /\ trail = [q \in SwitchPorts |-> NoTrail]
    /\ NoEngine
    /\ NoLoad
    /\ NoOther

\* run_action(action, hub, port) on the hub, on one port or on all of them;
\* the report of the action shows no device as enumerated
SwitchRunAction ==
    /\ \E a \in Cmd, p \in {Nothing} \cup {Just(q) : q \in SwitchPorts} :
          LET argv == uhub_cmd(run_action_cmd(a, Just(HubA), p))
          IN /\ uhub_lines' = tool_lines(argv, hub_power, FALSE)
             /\ run_action(a, Just(HubA), p, tool_proc(argv, hub_power, FALSE))
             /\ hub_power' = tool_apply(argv, hub_power)
             /\ trail' = [ q \in SwitchPorts |->
                             IF p = Nothing \/ p = Just(q)
                             THEN [prev |-> trail[q].last, last |-> Just(a)]
                             ELSE trail[q] ]
    /\ UNCHANGED <<engine_vars, load_vars, runner_vars, reset_vars,
                 doc_vars, querier_vars>>

\* get_status(hub, port) of one port of the hub
SwitchGetStatus ==
    /\ \E q \in SwitchPorts, att \in BOOLEAN :
          LET argv == uhub_cmd(get_status_cmd(Just(HubA), Just(q)))
          IN /\ uhub_lines' = tool_lines(argv, hub_power, att)
             /\ get_status(Just(HubA), Just(q), tool_proc(argv, hub_power, att))
    /\ UNCHANGED <<switch_vars, engine_vars, load_vars, runner_vars, reset_vars,
                 doc_vars, querier_vars>>

SwitchNext == SwitchRunAction \/ SwitchGetStatus

SwitchSpec == SwitchInit /\ [][SwitchNext]_vars

----------------------------------------------------------------------------
(* Device.load_device_list_from_yml, src/devs.py *)

\* the number of records of the registry document
MaxDevs == 2

\* serial numbers of devices
UidA == <<"A", "1">>
UidB == <<"B", "2">>

\* records of a registry document: a dict, here a function of its keys
RecordCases ==
    { [name |-> "psoc6_a", uid |-> UidA, features |-> <<"wifi", "ble">>],
      [name |-> "psoc6_b", uid |-> UidB, features |-> <<>>],
      [name |-> "psoc6_c", uid |-> UidA],
      [features |-> <<"adc">>] }

\* yaml.safe_load of a registry document: a list of records
RegistryDocs == UNION { [1..n -> RecordCases] : n \in 0..MaxDevs }

\* what comports() lists: the device path and the serial number, None for
\* an interface without one
ComportCases ==
    { <<>>,
      <<[device |-> "/dev/ttyACM0", serial_number |-> Just(UidA)]>>,
      <<[device |-> "/dev/ttyS0", serial_number |-> Nothing],
        [device |-> "/dev/ttyACM1", serial_number |-> Just(UidB)],
        [device |-> "/dev/ttyACM2", serial_number |-> Just(UidB)]>> }

\* what the tool prints for the hubs that are there
LoadOutputs ==
    { <<>>,
      <<HubALine, PortEntry(1, <<"0", "1", "0", "3", " ", "p", "o", "w", "e", "r", " ", "e", "n", "a", "b", "l", "e", " ", "c", "o", "n", "n", "e", "c", "t", " ", "[", "0", "4", "b", "4", ":", "f", "1", "5", "5", " ", "K", "i", "t", "P", "r", "o", "g", "3", " ", "A", "1", "]">>)>>,
      <<HubALine, PortEntry(1, PortOff.rest),
        HubBLine, PortEntry(2, <<"0", "1", "0", "3", " ", "p", "o", "w", "e", "r", " ", "e", "n", "a", "b", "l", "e", " ", "c", "o", "n", "n", "e", "c", "t", " ", "[", "0", "4", "b", "4", ":", "f", "1", "5", "5", " ", "K", "i", "t", "P", "r", "o", "g", "3", " ", "B", "2", "]">>),
        PortEntry(3, <<"0", "1", "0", "3", " ", "p", "o", "w", "e", "r", " ", "e", "n", "a", "b", "l", "e", " ", "c", "o", "n", "n", "e", "c", "t", " ", "[", "0", "4", "b", "4", ":", "f", "1", "5", "5", " ", "K", "i", "t", "P", "r", "o", "g", "3", " ", "A", "1", "]">>)>>,
      <<HubBLine, PortEntry(1, PortOn.rest), PortEntry(2, PortOff.rest)>> }

\* the tool prints its lines and exits 0, or finds no hub and fails
LoadTool ==
    IF uhub_lines = <<>>
    THEN Proc(1, <<>>, <<"N", "o", " ", "c", "o", "m", "p", "a", "t", "i", "b", "l", "e", " ", "d", "e", "v", "i", "c", "e", "s", " ", "d", "e", "t", "e", "c", "t", "e", "d", "!", "\n", "R", "u", "n", " ", "w", "i", "t", "h", " ", "-", "h", " ", "t", "o", " ", "g", "e", "t", " ", "u", "s", "a", "g", "e", " ", "i", "n", "f", "o", ".", "\n">>)
    ELSE Proc(0, Stdout(uhub_lines), <<>>)

\* dict.get(key, default)
dict_get(d, key, default) == IF key \in DOMAIN d THEN d[key] ELSE default

\* mutant of DevAccessSerial_create_from_uid: the first interface that has a
\* serial number, whatever it is
DevAccessSerial_create_first(ports, uid) ==
    LET M == { i \in DOMAIN ports : ports[i].serial_number # Nothing }
    IN IF M = {} THEN Nothing ELSE Just([address |-> ports[Min(M)].device])

\* DevAccessSerial.create_from_uid: the first interface with the serial number
DevAccessSerial_create_from_uid(ports, uid) ==
    LET M == { i \in DOMAIN ports : ports[i].serial_number = Just(uid) }
    IN IF M = {} THEN Nothing ELSE Just([address |-> ports[Min(M)].device])

\* DevSwitch.create_from_uid on the output get_hub_port_by_desc(uid) captured
DevSwitch_create_from_uid(out, uid) ==
    LET hp == output_search_hub_port_by_desc(out, uid)
    IN IF truthy_str(hp[1]) /\ truthy_int(hp[2])
       THEN Just([hub |-> hp[1][1], port |-> hp[2][1]])
       ELSE Nothing

\* Device(name, uid, features) with __post_init__
Device(name, uid, features, ports, out) ==
    [name |-> name, uid |-> uid, features |-> features,
     access |-> DevAccessSerial_create_from_uid(ports, uid),
     switch |-> DevSwitch_create_from_uid(out, uid)]

\* the Device of one record
device_of(dev, ports, out) ==
    Device(dict_get(dev, "name", ""), dict_get(dev, "uid", <<>>),
           dict_get(dev, "features", <<>>), ports, out)

\* mutant of load_device_list_from_yml: devices that are not connected are
\* left out
load_device_list_connected(doc, ports, out) ==
    LET connected(d) == d.access # Nothing \/ d.switch # Nothing
    IN SelectSeq([ i \in 1..Len(doc) |-> device_of(doc[i], ports, out) ], connected)

\* load_device_list_from_yml on the loaded document
load_device_list_from_yml(doc, ports, out) ==
    [ i \in 1..Len(doc) |-> device_of(doc[i], ports, out) ]

\* a registry document, the interfaces and the hubs that are connected
LoadInit ==
    /\ dev_yml_dict \in RegistryDocs
    /\ comports \in ComportCases
    /\ uhub_lines \in LoadOutputs
    /\ dev_obj_list = <<>>
    /\ last_cmd_output = <<>>
    /\ call = [op |-> "none"]
    /\ NoEngine
    /\ NoSwitch
    /\ NoOther

\* Device.load_device_list_from_yml: one get_hub_port_by_desc per record on
\* the one Uhubctl object of DevSwitch; call is the last of them
Load ==
    /\ dev_obj_list = <<>>
    /\ dev_obj_list' =
          <<load_device_list_from_yml(dev_yml_dict, comports, run_cmd(LoadTool))>>
    /\ IF dev_yml_dict = <<>>
       THEN UNCHANGED <<last_cmd_output, call>>
       ELSE LET uid == dict_get(dev_yml_dict[Len(dev_yml_dict)], "uid", <<>>)
            IN /\ last_cmd_output' = run_cmd(LoadTool)
               /\ call' = [op |-> "get_hub_port_by_desc", desc_match |-> uid,
                           proc |-> LoadTool,
                           before |-> IF Len(dev_yml_dict) = 1
                                      THEN last_cmd_output
                                      ELSE run_cmd(LoadTool),
                           argv |-> uhub_cmd(<<STR_search, uid>>),
                           result |-> output_search_hub_port_by_desc(
                                          run_cmd(LoadTool), uid)]
    /\ UNCHANGED <<uhub_lines, dev_yml_dict, comports>>
    /\ UNCHANGED <<engine_vars, switch_vars, runner_vars, reset_vars,
                 doc_vars, querier_vars>>

LoadNext == Load

LoadSpec == LoadInit /\ [][LoadNext]_vars

----------------------------------------------------------------------------
(* TestRunner: loading a test case and running it, src/run_test_plan.py *)

\* the number of processes whose exit code a run of a test case reads
MaxProcs == 3

\* a YAML node that is a scalar, and one that is a list
Scalar(x) == [scalar |-> x]
List(l) == [list |-> l]

\* a mapping with key k for each of the values, and the mapping without it
Opt(k, values) == {<<>>} \cup { k :> v : v \in values }

\* the test section of a record of the test plan
TestSections ==
    { s @@ e @@ d @@ a @@ p :
        s \in Opt("script", { Scalar("a.py"), List(<<"a.py", "d">>),
                              List(<<"d", "b.py">>) }),
        e \in Opt("exclude", { Scalar("d/x.py") }),
        d \in Opt("post_test_delay_ms", {0, 500}),
        a \in Opt("args", { <<"--fast">> }),
        p \in Opt("post_stub_delay_ms", {200}) }

\* the stub section of a record of the test plan
StubSections ==
    { s @@ p : s \in Opt("script", {"s.py"}),
               p \in Opt("post_stub_delay_ms", {300}) }

\* the records of a test plan; "smoke" is a type the code does not know
YmlTests ==
    { [name |-> "T1"] @@ ty @@ t @@ s :
        ty \in Opt("type", Types \cup {"smoke"}),
        t \in Opt("test", TestSections),
        s \in Opt("stub", StubSections \ {<<>>}) }

\* os.path.isdir for the scripts of YmlTests
isdir(path) == path = "d"

\* the files of directory d, each as os.path.join(root, file)
DirFiles == {"d/x.py", "d/r.txt", "d/y.py"}

\* the orders a directory listing can have: os.walk yields the files in
\* the order of the listing, which nothing sorts
DirListings ==
    { l \in [1..Cardinality(DirFiles) -> DirFiles] :
        \A i, j \in DOMAIN l : i # j => l[i] # l[j] }

\* the files os.walk finds in the directory, in the order of its listing
walk(path) == dir_listing

endswith_py(file) == file \in {"a.py", "b.py", "d/x.py", "d/y.py", "s.py"}

\* isinstance(v, list) and the list the code goes on with
as_list(v) == IF "list" \in DOMAIN v THEN v.list ELSE <<v.scalar>>

\* mutant of determine_implicit_type: the delay is looked at first
determine_implicit_type_delay_first(stub_script, post_test_delay_ms) ==
    IF post_test_delay_ms > 0 THEN "single_post_delay"
    ELSE IF stub_script # None THEN "multi_stub"
    ELSE "single"

\* TestRunner.__determine_implicit_type
determine_implicit_type(stub_script, post_test_delay_ms) ==
    IF stub_script # None THEN "multi_stub"
    ELSE IF post_test_delay_ms > 0 THEN "single_post_delay"
    ELSE "single"

\* TestRunner.__init__, the fields that the runner functions read
TestRunner(name, test_script_list, test_exclude_list, post_test_delay_ms, stub_script, post_stub_delay_ms, test_type, custom_args) ==
    [name |-> name,
     test_script_list |-> test_script_list,
     test_exclude_list |-> test_exclude_list,
     post_test_delay_ms |-> post_test_delay_ms,
     stub_script |-> stub_script,
     post_stub_delay_ms |-> post_stub_delay_ms,
     custom_args |-> custom_args,
     type |-> IF test_type # None THEN test_type
              ELSE determine_implicit_type(stub_script, post_test_delay_ms)]

\* load_list_from_yaml, lines 170-193: the TestRunner of one record
load_test(t) ==
    TestRunner(
        dict_get(t, "name", None),
        as_list(dict_get(dict_get(t, "test", <<>>), "script", List(<<>>))),
        as_list(dict_get(dict_get(t, "test", <<>>), "exclude", List(<<>>))),
        dict_get(dict_get(t, "test", <<>>), "post_test_delay_ms", 0),
        dict_get(dict_get(t, "stub", <<>>), "script", None),
        dict_get(dict_get(t, "test", <<>>), "post_stub_delay_ms", 0),
        dict_get(t, "type", None),
        dict_get(dict_get(t, "test", <<>>), "args", <<>>))

\* A run in progress: the log of what it did, the exit codes the processes
\* it has yet to wait for are going to return, and the last return value.
\* subprocess.run of a command whose exit code is read
subprocess_run(cmd, st) ==
    [log |-> Append(st.log, [kind |-> "proc", cmd |-> cmd, rc |-> Head(st.rcs)]),
     rcs |-> Tail(st.rcs),
     ret |-> Head(st.rcs)]

\* subprocess.run of a command whose exit code is not read
subprocess_run_unread(cmd, st) ==
    [st EXCEPT !.log = Append(@, [kind |-> "proc_unread", cmd |-> cmd])]

\* time.sleep(ms / 1000.0)
time_sleep(ms, st) == [st EXCEPT !.log = Append(@, [kind |-> "sleep", ms |-> ms])]

\* f"port:{dut_port}", for the endpoints of this model
fport(dut_port) ==
    IF dut_port = "/dev/ttyACM0" THEN "port:/dev/ttyACM0"
    ELSE IF dut_port = "/dev/ttyACM1" THEN "port:/dev/ttyACM1"
    ELSE "port:None"

\* TestRunner.__run_single_test_cmd
run_single_test_cmd(dut_port, test_args, exclude_args, st) ==
    LET run_test_cmd == <<"python", "run-tests.py", "-t", fport(dut_port)>>
                        \o test_args \o exclude_args
        s1 == subprocess_run(run_test_cmd, st)
    IN IF s1.ret # 0
       THEN subprocess_run_unread(<<"python", "run-tests.py", "--clean-failures">>,
                subprocess_run_unread(<<"python", "run-tests.py", "--print-failures">>, s1))
       ELSE s1

\* get_test_list_args of __run_single_test: -d before a directory
RECURSIVE single_test_list_args(_)
single_test_list_args(l) ==
    IF l = <<>> THEN <<>>
    ELSE (IF isdir(Head(l)) THEN <<"-d", Head(l)>> ELSE <<Head(l)>>)
         \o single_test_list_args(Tail(l))

\* get_test_list_exclude_args: -e before each excluded test
RECURSIVE test_list_exclude_args(_)
test_list_exclude_args(l) ==
    IF l = <<>> THEN <<>>
    ELSE <<"-e", Head(l)>> \o test_list_exclude_args(Tail(l))

\* mutant of run_single_test: one process per declared script
RECURSIVE run_single_test_each(_, _, _)
run_single_test_each(self, dut_port, st) ==
    IF self.test_script_list = <<>> THEN [st EXCEPT !.ret = 0]
    ELSE LET s1 == run_single_test_cmd(dut_port, <<Head(self.test_script_list)>>, <<>>, st)
         IN IF s1.ret # 0 THEN s1
            ELSE run_single_test_each(
                     [self EXCEPT !.test_script_list = Tail(@)], dut_port, s1)

\* TestRunner.__run_single_test
run_single_test(self, dut_port, st) ==
    run_single_test_cmd(dut_port,
                        single_test_list_args(self.test_script_list),
                        test_list_exclude_args(self.test_exclude_list), st)

\* get_test_list_args of __run_single_post_delay_test and get_test_list of
\* __run_multi_test: a directory is replaced by the .py files in it
RECURSIVE expanded_test_list(_)
expanded_test_list(l) ==
    IF l = <<>> THEN <<>>
    ELSE (IF isdir(Head(l)) THEN SelectSeq(walk(Head(l)), endswith_py)
          ELSE <<Head(l)>>)
         \o expanded_test_list(Tail(l))

\* remove_excluded_tests
RECURSIVE remove_excluded_tests(_, _)
remove_excluded_tests(test_list_args, excluded) ==
    IF excluded = <<>> THEN test_list_args
    ELSE remove_excluded_tests(list_remove(test_list_args, Head(excluded)),
                               Tail(excluded))

\* the loop of __run_single_post_delay_test
RECURSIVE post_delay_loop(_, _, _, _)
post_delay_loop(self, dut_port, tests, st) ==
    IF tests = <<>> THEN [st EXCEPT !.ret = 0]
    ELSE LET s1 == run_single_test_cmd(dut_port, <<Head(tests)>>, <<>>, st)
         IN IF s1.ret # 0 THEN s1
            ELSE post_delay_loop(self, dut_port, Tail(tests),
                     IF self.post_test_delay_ms > 0
                     THEN time_sleep(self.post_test_delay_ms, s1)
                     ELSE s1)

\* TestRunner.__run_single_post_delay_test
run_single_post_delay_test(self, dut_port, st) ==
    post_delay_loop(self, dut_port,
        remove_excluded_tests(expanded_test_list(self.test_script_list),
                              self.test_exclude_list),
        st)

\* an exception that nothing in TestRunner catches: the run ends with it
raise(exc, st) == [st EXCEPT !.log = Append(@, [kind |-> "raise", exc |-> exc])]

\* the run has ended with an exception
Raised(st) == st.log # <<>> /\ st.log[Len(st.log)].kind = "raise"

\* TestRunner.__run_stub; subprocess.run raises TypeError for an argument
\* vector that holds None, before any process is started
run_stub(self, stub_port, st) ==
    IF self.stub_script = None \/ stub_port = None
    THEN raise("TypeError", st)
    ELSE subprocess_run(<<"tests/../tools/mpremote/mpremote.py", "connect",
                          stub_port, "run", "--no-follow", self.stub_script>>, st)

\* mutant of run_multi_stub_test: the dut test runs whatever the stub did
run_multi_stub_test_always(self, dut_port, stub_port, st) ==
    LET s1 == run_stub(self, stub_port, st)
    IN IF Raised(s1) THEN s1
       ELSE run_single_test(self, dut_port,
                IF self.post_stub_delay_ms > 0
                THEN time_sleep(self.post_stub_delay_ms, s1)
                ELSE s1)

\* TestRunner.__run_multi_stub_test
run_multi_stub_test(self, dut_port, stub_port, st) ==
    LET s1 == run_stub(self, stub_port, st)
    IN IF Raised(s1) THEN s1
       ELSE IF s1.ret # 0 THEN s1
       ELSE run_single_test(self, dut_port,
                IF self.post_stub_delay_ms > 0
                THEN time_sleep(self.post_stub_delay_ms, s1)
                ELSE s1)

\* TestRunner.__run_multi_test
run_multi_test(self, dut_a_port, dut_b_port, st) ==
    subprocess_run(<<"python", "run-multitests.py", "-t", dut_a_port, "-t", dut_b_port>>
                   \o expanded_test_list(self.test_script_list), st)

\* the loop of __custom_test: result is 1 once a script exited non-zero
RECURSIVE custom_loop(_, _, _, _, _)
custom_loop(self, dut_port, tests, result, st) ==
    IF tests = <<>> THEN [st EXCEPT !.ret = result]
    ELSE LET s1 == subprocess_run(<<"python", Head(tests), dut_port>>
                                  \o self.custom_args, st)
         IN custom_loop(self, dut_port, Tail(tests),
                        IF s1.ret # 0 THEN 1 ELSE result, s1)

\* mutant of custom_test: the first failing script ends the test
custom_test_stop_first(self, dut_port, st) ==
    LET RECURSIVE loop(_, _)
        loop(tests, s) ==
            IF tests = <<>> THEN [s EXCEPT !.ret = 0]
            ELSE LET s1 == subprocess_run(<<"python", Head(tests), dut_port>>
                                          \o self.custom_args, s)
                 IN IF s1.ret # 0 THEN [s1 EXCEPT !.ret = 1] ELSE loop(Tail(tests), s1)
    IN loop(self.test_script_list, st)

\* TestRunner.__custom_test
custom_test(self, dut_port, st) ==
    custom_loop(self, dut_port, self.test_script_list, 0, st)

\* TestRunner.run with the runner function of the type; for a type that
\* __get_runner_func does not know the runner function is None and the call
\* raises TypeError
run(self, dut_port, stub_port, st) ==
    IF self.type = "single" THEN run_single_test(self, dut_port, st)
    ELSE IF self.type = "single_post_delay"
    THEN run_single_post_delay_test(self, dut_port, st)
    ELSE IF self.type = "multi_stub"
    THEN run_multi_stub_test(self, dut_port, stub_port, st)
    ELSE IF self.type = "multi" THEN run_multi_test(self, dut_port, stub_port, st)
    ELSE IF self.type = "custom" THEN custom_test(self, dut_port, st)
    ELSE raise("TypeError", st)

\* a record of the test plan, not yet loaded
RunnerInit ==
    /\ yml_test \in YmlTests
    /\ dir_listing \in DirListings
    /\ test_runner = <<>>
    /\ proc_log = <<>>
    /\ run_ret = <<>>
    /\ NoEngine
    /\ NoUhubctl
    /\ NoSwitch
    /\ NoLoad
    /\ NoReset /\ NoDoc /\ NoQuerier

\* TestRunner.load_list_from_yaml on the record
LoadTest ==
    /\ test_runner = <<>>
    /\ test_runner' = <<load_test(yml_test)>>
    /\ UNCHANGED <<yml_test, proc_log, run_ret, dir_listing>>
    /\ UNCHANGED <<engine_vars, uhub_vars, switch_vars, load_vars, reset_vars,
                   doc_vars, querier_vars>>

\* test.run(dut_port, stub_port), the processes exiting with the codes rcs;
\* a run that raises returns nothing
RunTest ==
    /\ test_runner # <<>>
    /\ run_ret = <<>>
    /\ proc_log = <<>>
    /\ \E rcs \in [1..MaxProcs -> RetCodes] :
          LET st == run(test_runner[1], "/dev/ttyACM0", "/dev/ttyACM1",
                        [log |-> <<>>, rcs |-> rcs, ret |-> 0])
          IN /\ proc_log' = st.log
             /\ run_ret' = IF Raised(st) THEN <<>> ELSE <<st.ret>>
    /\ UNCHANGED <<yml_test, test_runner, dir_listing>>
    /\ UNCHANGED <<engine_vars, uhub_vars, switch_vars, load_vars, reset_vars,
                   doc_vars, querier_vars>>

RunnerNext == LoadTest \/ RunTest

RunnerSpec == RunnerInit /\ [][RunnerNext]_vars

----------------------------------------------------------------------------
(* TestPlanRunner.run: one pass of the for loop, statement by statement *)

\* what DevSwitch.status() returns to the polling loop
PollStatuses == {"on connected", "on"}

\* an entry of the record of one iteration: a cycle action, a status poll
\* and its result, a sleep of n seconds, the invocation of the test with
\* exit code n, a registration
Ev(op, d, status, n) == [op |-> op, dev |-> d, status |-> status, n |-> n]

\* mutant of devs_to_reset: the stub is handled first
devs_to_reset_stub_first == <<stub_dev, dut_dev>>

\* devs_to_reset = [dut_dev, stub_dev]
devs_to_reset == <<dut_dev, stub_dev>>
DevName(i) == IF i = 1 THEN "dut" ELSE "stub"

\* the condition of the while loop of __reset_switchable_devs
poll_again(status, t) == ~(status = "on connected") /\ t < 5

\* mutant of register_result: every invoked test is registered as failed
register_result_fail(r, test_name, rc) == register_fail(r, test_name)

\* mutant of register_result: only an exit code above 1 is a failure
register_result_above_one(r, test_name, rc) ==
    IF rc > 1 THEN register_fail(r, test_name) ELSE register_pass(r, test_name)

\* TestPlanRunner.run, lines 692-697
register_result(r, test_name, rc) ==
    IF rc # 0 THEN register_fail(r, test_name) ELSE register_pass(r, test_name)

ResetInit ==
    /\ plan \in Plans
    /\ test_list = [i \in 1..Len(plan) |-> i]
    /\ idx = 1
    /\ pc = "for"
    /\ test_results = TestPlanResults(MaxRetries)
    /\ exit_code = <<>>
    /\ cur = 0
    /\ arg = ""
    /\ outcome = ""
    /\ invocations = [i \in 1..Len(plan) |-> 0]
    /\ clean = [i \in 1..Len(plan) |-> TRUE]
    /\ ever_skipped = {}
    /\ NoPass
    /\ NoBody
    /\ NoUhubctl
    /\ NoSwitch
    /\ NoLoad
    /\ NoRunner /\ NoReset /\ NoDoc /\ NoQuerier

\* what a step of the pass leaves alone
ResetFrame ==
    /\ UNCHANGED <<plan, test_list, exit_code, cur, clean, before, test, niter,
                   pass_start, away>>
    /\ UNCHANGED <<uhub_vars, switch_vars, load_vars, runner_vars, doc_vars,
                   querier_vars>>

\* lines 678-685: the next test of the list, its devices and the gate
Gate ==
    /\ pc = "for"
    /\ idx <= Len(test_list)
    /\ \E dut \in DutDevs, stub \in StubDevs :
        LET t == plan[test_list[idx]]
            ports == get_test_ports(dut, stub)
        IN /\ dut_dev' = dut
           /\ stub_dev' = stub
           /\ arg' = t.name
           /\ ret_code' = <<>>
           /\ timeout' = 0
           /\ IF ~are_supported_devs_available(t.type, ports[1], ports[2])
              THEN /\ test_results' = register_skip(test_results, t.name)
                   /\ events' = <<Ev("register_skip", "", "", 0)>>
                   /\ outcome' = "skip"
                   /\ ever_skipped' = ever_skipped \cup {idx}
                   /\ idx' = idx + 1
                   /\ pc' = "for"
                   /\ dev_i' = 0
              ELSE /\ events' = <<>>
                   /\ outcome' = ""
                   /\ dev_i' = 1
                   /\ pc' = "dev"
                   /\ UNCHANGED <<test_results, ever_skipped, idx>>
    /\ UNCHANGED invocations
    /\ ResetFrame

\* lines 747-751: the next device of devs_to_reset; its switch is cycled
NextDev ==
    /\ pc = "dev"
    /\ IF dev_i > Len(devs_to_reset)
       THEN /\ pc' = "run"
            /\ UNCHANGED <<dev_i, events, timeout>>
       ELSE IF devs_to_reset[dev_i].switch
       THEN /\ events' = Append(events, Ev("cycle", DevName(dev_i), "", 0))
            /\ timeout' = 0
            /\ pc' = "while"
            /\ UNCHANGED dev_i
       ELSE /\ dev_i' = dev_i + 1
            /\ UNCHANGED <<pc, events, timeout>>
    /\ UNCHANGED <<idx, test_results, outcome, arg, dut_dev, stub_dev, ret_code,
                   invocations, ever_skipped>>
    /\ ResetFrame

\* line 752: the condition of the while loop, with the status it reads
Poll ==
    /\ pc = "while"
    /\ \E status \in PollStatuses :
          /\ events' = Append(events, Ev("status", DevName(dev_i), status, 0))
          /\ pc' = IF poll_again(status, timeout) THEN "sleep" ELSE "settle"
    /\ UNCHANGED <<idx, test_results, outcome, arg, dut_dev, stub_dev, ret_code,
                   invocations, ever_skipped, timeout, dev_i>>
    /\ ResetFrame

\* lines 753-754: the body of the while loop
PollSleep ==
    /\ pc = "sleep"
    /\ events' = Append(events, Ev("sleep", DevName(dev_i), "", 1))
    /\ timeout' = timeout + 1
    /\ pc' = "while"
    /\ UNCHANGED <<idx, test_results, outcome, arg, dut_dev, stub_dev, ret_code,
                   invocations, ever_skipped, dev_i>>
    /\ ResetFrame

\* line 757: the time for MicroPython to be ready
Settle ==
    /\ pc = "settle"
    /\ events' = Append(events, Ev("sleep", DevName(dev_i), "", 2))
    /\ dev_i' = dev_i + 1
    /\ pc' = "dev"
    /\ UNCHANGED <<idx, test_results, outcome, arg, dut_dev, stub_dev, ret_code,
                   invocations, ever_skipped, timeout>>
    /\ ResetFrame

\* lines 689-690: the test is invoked and exits with some code
Invoke ==
    /\ pc = "run"
    /\ \E rc \in RetCodes :
          /\ ret_code' = <<rc>>
          /\ events' = Append(events, Ev("run", "", "", rc))
    /\ invocations' = [invocations EXCEPT ![test_list[idx]] = @ + 1]
    /\ pc' = "register"
    /\ UNCHANGED <<idx, test_results, outcome, arg, dut_dev, stub_dev,
                   ever_skipped, timeout, dev_i>>
    /\ ResetFrame

\* lines 692-697: the registration, and on to the next test
Register ==
    /\ pc = "register"
    /\ test_results' = register_result(test_results, arg, ret_code[1])
    /\ outcome' = IF ret_code[1] # 0 THEN "fail" ELSE "pass"
    /\ events' = Append(events,
                    Ev(IF ret_code[1] # 0 THEN "register_fail" ELSE "register_pass",
                       "", "", 0))
    /\ idx' = idx + 1
    /\ pc' = "for"
    /\ UNCHANGED <<arg, dut_dev, stub_dev, ret_code, invocations, ever_skipped,
                   timeout, dev_i>>
    /\ ResetFrame

\* line 699: the for loop is over
PassEnd ==
    /\ pc = "for"
    /\ idx > Len(test_list)
    /\ pc' = "footer"
    /\ UNCHANGED <<idx, test_results, outcome, arg, dut_dev, stub_dev, ret_code,
                   events, invocations, ever_skipped, timeout, dev_i>>
    /\ ResetFrame

ResetNext ==
    Gate \/ NextDev \/ Poll \/ PollSleep \/ Settle \/ Invoke \/ Register \/ PassEnd

ResetSpec == ResetInit /\ [][ResetNext]_vars

\* the pass is one sequential thread: it takes its next step whenever it
\* has one, and every sleep and every process it waits for returns
FairResetSpec == ResetSpec /\ WF_vars(ResetNext)

----------------------------------------------------------------------------
(* A run in HIL mode: TestPlanRunnerHIL.run, src/run_test_plan.py *)

\* longest list of test names given on the command line
MaxNames == 2

\* what is at the path of a document: no file, a file yaml cannot load, or
\* a document
FileStates == {"missing", "unparsable", "ok"}

NameLists == UNION { [1..n -> Names] : n \in 0..MaxNames }

\* inner loops of __get_test_list: the tests of the plan with that name
RECURSIVE tests_named(_, _, _)
tests_named(p, i, test_name) ==
    IF i > Len(p) THEN <<>>
    ELSE (IF p[i].name = test_name THEN <<i>> ELSE <<>>)
         \o tests_named(p, i + 1, test_name)

RECURSIVE tests_of_names(_, _)
tests_of_names(p, names) ==
    IF names = <<>> THEN <<>>
    ELSE tests_named(p, 1, Head(names)) \o tests_of_names(p, Tail(names))

\* TestPlanRunner.__get_test_list on a plan document that was loaded
get_test_list(p, names) ==
    IF names = <<>> THEN [i \in 1..Len(p) |-> i]
    ELSE tests_of_names(p, names)

\* load_yml_file and the head of load_list_from_yaml: sys.exit(1) unless
\* the file exists and yaml loads it
load_exits(file) == file # "ok"

HilInit ==
    /\ test_plan_file \in FileStates
    /\ hil_devs_file \in FileStates
    /\ test_name_list \in NameLists
    /\ plan \in Plans
    /\ test_list = <<>>
    /\ idx = 1
    /\ pc = "run"
    /\ \E n \in 0..MaxRetries : test_results = TestPlanResults(n)
    /\ exit_code = <<>>
    /\ cur = 0
    /\ arg = ""
    /\ outcome = ""
    /\ invocations = [i \in 1..Len(plan) |-> 0]
    /\ clean = [i \in 1..Len(plan) |-> TRUE]
    /\ ever_skipped = {}
    /\ NoPass
    /\ NoBody
    /\ NoUhubctl
    /\ NoSwitch
    /\ NoLoad
    /\ NoRunner /\ NoReset /\ NoQuerier

HilFrame ==
    /\ UNCHANGED <<plan, test_results, cur, arg, outcome, invocations, clean,
                   ever_skipped, pass_start, away>>
    /\ UNCHANGED body_vars
    /\ UNCHANGED <<uhub_vars, switch_vars, load_vars, runner_vars, reset_vars,
                   doc_vars, querier_vars>>

\* line 673: the test plan document is loaded and the tests are selected
HilGetTestList ==
    /\ pc = "run"
    /\ IF load_exits(test_plan_file)
       THEN /\ exit_code' = <<1>>
            /\ pc' = "done"
            /\ UNCHANGED test_list
       ELSE /\ test_list' = get_test_list(plan, test_name_list)
            /\ pc' = "loop"
            /\ UNCHANGED exit_code
    /\ UNCHANGED idx
    /\ HilFrame

\* line 679, get_test_devs, line 826: Device() without name, uid and
\* features raises TypeError, which nothing catches; the process ends with
\* exit code 1 before the device registry is looked at
HilGetTestDevs ==
    /\ pc = "loop"
    /\ idx <= Len(test_list)
    /\ exit_code' = <<1>>
    /\ pc' = "done"
    /\ UNCHANGED <<test_list, idx>>
    /\ HilFrame

\* lines 699-706: the end of a pass
HilEndPass ==
    /\ pc = "loop"
    /\ idx > Len(test_list)
    /\ test_list' = filter_retries(test_results, plan, test_list)
    /\ pc' = IF filter_retries(test_results, plan, test_list) # <<>>
             THEN "loop" ELSE "summary"
    /\ idx' = 1
    /\ UNCHANGED exit_code
    /\ HilFrame

\* lines 708-715
HilFinish ==
    /\ pc = "summary"
    /\ exit_code' = <<final_exit_code(test_results)>>
    /\ pc' = "done"
    /\ UNCHANGED <<test_list, idx>>
    /\ HilFrame

HilNext == HilGetTestList \/ HilGetTestDevs \/ HilEndPass \/ HilFinish

HilSpec == HilInit /\ [][HilNext]_vars

----------------------------------------------------------------------------
(* TestPlanRunnerHIL.get_test_devs: the devices of a test in HIL mode,     *)
(* src/run_test_plan.py                                                    *)

\* the board of the run
Board == "psoc6_a"

\* test cases with the devices they support, as load_list_from_yaml reads
\* them from test.device and stub.device
HilCases ==
    { [name |-> "T1", type |-> "single",
       supported_dut_dev_list |-> <<[board |-> "psoc6_a"]>>,
       supported_stub_dev_list |-> <<>>],
      [name |-> "T2", type |-> "multi",
       supported_dut_dev_list |->
           <<[board |-> "psoc6_a", version |-> "wifi"], [board |-> "psoc6_a"]>>,
       supported_stub_dev_list |-> <<>>],
      [name |-> "T2", type |-> "multi_stub",
       supported_dut_dev_list |-> <<[board |-> "psoc6_a"]>>,
       supported_stub_dev_list |-> <<[board |-> "psoc6_b"], [board |-> "psoc6_a"]>>] }

HilPlans == UNION { [1..n -> HilCases] : n \in 0..MaxTests }

\* registry documents with one or two boards of the run and another board
HilRegistryDocs ==
    { <<>>,
      <<[name |-> "psoc6_a", uid |-> UidA, features |-> <<"wifi">>]>>,
      <<[name |-> "psoc6_a", uid |-> UidA, features |-> <<>>],
        [name |-> "psoc6_a", uid |-> UidB, features |-> <<"wifi">>]>>,
      <<[name |-> "psoc6_b", uid |-> UidB, features |-> <<>>],
        [name |-> "psoc6_a", uid |-> UidA, features |-> <<"wifi">>]>> }

\* the serial interfaces that are connected
HilComportCases ==
    { <<>>,
      <<[device |-> "/dev/ttyACM0", serial_number |-> Just(UidA)]>>,
      <<[device |-> "/dev/ttyACM1", serial_number |-> Just(UidB)]>>,
      <<[device |-> "/dev/ttyACM0", serial_number |-> Just(UidA)],
        [device |-> "/dev/ttyACM1", serial_number |-> Just(UidB)]>> }

\* TestRunner.get_supported_dev_list(dev_role, board), version None
get_supported_dev_list(self, dev_role, board) ==
    LET device_list ==
            IF dev_role = "dut" THEN self.supported_dut_dev_list
            ELSE IF "multi" = self.type THEN self.supported_dut_dev_list
            ELSE self.supported_stub_dev_list
    IN SelectSeq(device_list,
                 LAMBDA device : board = dict_get(device, "board", None))

\* the loop of __get_devs_for_role; available_devs is what line 867 loads
\* from the registry and binds to the connected hardware for every
\* supported device, the same list each time within one call
RECURSIVE get_devs_for_role_loop(_, _)
get_devs_for_role_loop(supported_dev_list, available_devs) ==
    IF supported_dev_list = <<>> THEN <<>>
    ELSE LET supported_dev == Head(supported_dev_list)
             version == dict_get(supported_dev, "version", None)
         IN SelectSeq(available_devs,
                      LAMBDA dev :
                          /\ dev.name = dict_get(supported_dev, "board", None)
                          /\ (version = None \/ In(version, dev.features)))
            \o get_devs_for_role_loop(Tail(supported_dev_list), available_devs)

\* TestPlanRunnerHIL.__get_devs_for_role
get_devs_for_role(test_case, board, device_role, available_devs) ==
    get_devs_for_role_loop(get_supported_dev_list(test_case, device_role, board),
                           available_devs)

\* Device() of lines 826 and 827: name, uid and features have no default
\* in the dataclass, the call raises TypeError
Device_no_args == [raised |-> TRUE, exc |-> "TypeError"]

\* lines 829-854 of get_test_devs, from the two devices of lines 826-827
get_test_devs_from(dut0, stub0, test_case, board, available_devs) ==
    LET dut_dev_list == get_devs_for_role(test_case, board, "dut", available_devs)
        A == { i \in DOMAIN dut_dev_list : dut_dev_list[i].access # Nothing }
        dut == IF A = {} THEN dut0 ELSE dut_dev_list[Min(A)]
    IN IF dut_dev_list = <<>> THEN <<dut0, stub0>>
       ELSE IF dut.access = Nothing THEN <<dut, stub0>>
       ELSE IF requires_multiple_devs(test_case.type)
       THEN LET stub_dev_list ==
                    get_devs_for_role(test_case, board, "stub", available_devs)
                S == { i \in DOMAIN stub_dev_list :
                         /\ stub_dev_list[i].access # Nothing
                         /\ stub_dev_list[i].access[1].address
                                # dut.access[1].address }
            IN <<dut, IF S = {} THEN stub0 ELSE stub_dev_list[Min(S)]>>
       ELSE <<dut, stub0>>

\* TestPlanRunnerHIL.get_test_devs
get_test_devs(test_case, board, available_devs) ==
    IF Device_no_args.raised
    THEN [raised |-> TRUE, exc |-> Device_no_args.exc]
    ELSE [raised |-> FALSE,
          devs |-> get_test_devs_from(Device_no_args.value, Device_no_args.value,
                                      test_case, board, available_devs)]

\* Device.load_device_list_from_yml(self.hil_devs_file) with the interfaces
\* ports connected
load_available_devs(ports) ==
    load_device_list_from_yml(dev_yml_dict, ports, run_cmd(LoadTool))

\* a Device as the loop body reads it
run_dev(dev) ==
    [access |-> IF dev.access = Nothing THEN None ELSE dev.access[1].address,
     switch |-> dev.switch # Nothing]

\* a run in HIL mode whose documents load, with any registry and hardware
DevsInit ==
    /\ test_plan_file = "ok"
    /\ hil_devs_file = "ok"
    /\ test_name_list = <<>>
    /\ plan \in HilPlans
    /\ dev_yml_dict \in HilRegistryDocs
    /\ comports \in HilComportCases
    /\ dev_obj_list = <<>>
    /\ uhub_lines = <<>>
    /\ last_cmd_output = <<>>
    /\ call = [op |-> "none"]
    /\ test_list = <<>>
    /\ idx = 1
    /\ pc = "run"
    /\ \E n \in 0..MaxRetries : test_results = TestPlanResults(n)
    /\ exit_code = <<>>
    /\ cur = 0
    /\ arg = ""
    /\ outcome = ""
    /\ invocations = [i \in 1..Len(plan) |-> 0]
    /\ clean = [i \in 1..Len(plan) |-> TRUE]
    /\ ever_skipped = {}
    /\ NoPass
    /\ NoBody
    /\ NoSwitch
    /\ NoRunner /\ NoReset /\ NoQuerier

DevsFrame ==
    /\ UNCHANGED <<plan, cur, arg, invocations, clean, ever_skipped, pass_start,
                   away>>
    /\ UNCHANGED <<before, test, ret_code, events, niter>>
    /\ UNCHANGED <<uhub_lines, last_cmd_output, dev_yml_dict, dev_obj_list>>
    /\ UNCHANGED <<switch_vars, runner_vars, reset_vars, doc_vars, querier_vars>>

\* line 673: the tests of the plan document
DevsGetTestList ==
    /\ pc = "run"
    /\ test_list' = get_test_list(plan, test_name_list)
    /\ pc' = "loop"
    /\ UNCHANGED <<idx, exit_code, test_results, outcome, dut_dev, stub_dev,
                   call, comports>>
    /\ DevsFrame

\* lines 678-696 for one test: get_test_devs on the registry and the
\* hardware connected now; an exception nothing catches ends the process
\* with exit code 1, otherwise the body of the loop goes on with the devices
DevsIterate ==
    /\ pc = "loop"
    /\ idx <= Len(test_list)
    /\ LET t == plan[test_list[idx]]
           r == get_test_devs(t, Board, load_available_devs(comports))
       IN /\ call' = [op |-> "get_test_devs", test_case |-> t,
                      ports |-> comports, result |-> r]
          /\ IF r.raised
             THEN /\ exit_code' = <<1>>
                  /\ pc' = "done"
                  /\ outcome' = "raise"
                  /\ UNCHANGED <<idx, test_results, dut_dev, stub_dev>>
             ELSE \E rc \in RetCodes :
                     LET b == loop_body(test_results, t, run_dev(r.devs[1]),
                                        run_dev(r.devs[2]), rc)
                     IN /\ test_results' = b.results
                        /\ outcome' = b.outcome
                        /\ dut_dev' = run_dev(r.devs[1])
                        /\ stub_dev' = run_dev(r.devs[2])
                        /\ idx' = idx + 1
                        /\ UNCHANGED <<exit_code, pc>>
    /\ UNCHANGED <<test_list, comports>>
    /\ DevsFrame

\* a device is plugged in or pulled out while the run is in its loop
Replug ==
    /\ pc = "loop"
    /\ comports' \in HilComportCases \ {comports}
    /\ UNCHANGED <<test_list, idx, pc, exit_code, test_results, outcome,
                   dut_dev, stub_dev, call>>
    /\ DevsFrame

\* lines 699-706: the end of a pass
DevsEndPass ==
    /\ pc = "loop"
    /\ idx > Len(test_list)
    /\ test_list' = filter_retries(test_results, plan, test_list)
    /\ pc' = IF filter_retries(test_results, plan, test_list) # <<>>
             THEN "loop" ELSE "summary"
    /\ idx' = 1
    /\ UNCHANGED <<exit_code, test_results, outcome, dut_dev, stub_dev, call,
                   comports>>
    /\ DevsFrame

\* lines 708-715
DevsFinish ==
    /\ pc = "summary"
    /\ exit_code' = <<final_exit_code(test_results)>>
    /\ pc' = "done"
    /\ UNCHANGED <<test_list, idx, test_results, outcome, dut_dev, stub_dev,
                   call, comports>>
    /\ DevsFrame

DevsNext == DevsGetTestList \/ DevsIterate \/ Replug \/ DevsEndPass \/ DevsFinish

DevsSpec == DevsInit /\ [][DevsNext]_vars

----------------------------------------------------------------------------
(* ObjectAttrQuerier, src/devs_query.py *)

\* Python values: None, a str (its characters), an int, a list, and an
\* object with its attributes in the order of vars()
PyNone == [t |-> "none", v |-> <<>>]
PyStr(s) == [t |-> "str", v |-> s]
PyInt(n) == [t |-> "int", v |-> n]
PyList(l) == [t |-> "list", v |-> l]
PyObj(attrs) == [t |-> "obj", v |-> attrs]
Attr(key, val) == [key |-> key, val |-> val]

\* a == b
py_eq(a, b) == a.t = b.t /\ a.v = b.v

\* bool(x); an instance of a dataclass is true
truthy(x) ==
    IF x.t = "none" THEN FALSE
    ELSE IF x.t = "int" THEN x.v # 0
    ELSE IF x.t \in {"str", "list"} THEN x.v # <<>>
    ELSE TRUE

\* hasattr and getattr, for the data attributes of the keys queried
hasattr(o, key) == o.t = "obj" /\ \E i \in DOMAIN o.v : o.v[i].key = key
getattr(o, key) == o.v[CHOOSE i \in DOMAIN o.v : o.v[i].key = key].val

\* ObjectAttrQuerier.__query_attr
query_attr(o, query_attr_key) ==
    IF hasattr(o, query_attr_key) THEN getattr(o, query_attr_key) ELSE PyNone

\* ObjectAttrQuerier.__query_exact
query_exact(o, query_attr_key, query_value) ==
    IF hasattr(o, query_attr_key)
    THEN py_eq(getattr(o, query_attr_key), query_value)
    ELSE FALSE

\* ObjectAttrQuerier.__query_contains
query_contains(o, query_attr_key, query_value) ==
    IF hasattr(o, query_attr_key)
    THEN LET attr_value == getattr(o, query_attr_key)
         IN IF attr_value.t = "str" THEN contains(attr_value.v, query_value.v)
            ELSE FALSE
    ELSE FALSE

\* ObjectAttrQuerier.query
query(o, attr_key, attr_value, exact) ==
    IF truthy(attr_value)
    THEN IF exact
         THEN (IF query_exact(o, attr_key, attr_value) THEN attr_value ELSE PyNone)
         ELSE (IF query_contains(o, attr_key, attr_value) THEN attr_value ELSE PyNone)
    ELSE query_attr(o, attr_key)

\* the for loop of query_deep from attribute i on; found is what the last
\* query returned
RECURSIVE query_deep_loop(_, _, _, _, _, _)
query_deep_loop(o, i, found, attr_key, attr_value, exact) ==
    IF i > Len(o.v) THEN found
    ELSE LET sub == query(o.v[i].val, attr_key, attr_value, exact)
         IN IF sub.t # "none" THEN sub
            ELSE query_deep_loop(o, i + 1, sub, attr_key, attr_value, exact)

\* ObjectAttrQuerier.query_deep
query_deep(o, attr_key, attr_value, exact) ==
    LET found_attr_value == query(o, attr_key, attr_value, exact)
    IN IF ~truthy(found_attr_value)
       THEN query_deep_loop(o, 1, found_attr_value, attr_key, attr_value, exact)
       ELSE found_attr_value

\* Uhubctl(), DevSwitch and DevAccessSerial as objects
UhubctlObj == PyObj(<<Attr("last_cmd_output", PyStr(<<>>))>>)
DevSwitchObj(hub, port) ==
    PyObj(<<Attr("hub", PyStr(hub)), Attr("port", PyInt(port)),
            Attr("hw_controller", UhubctlObj)>>)
DevAccessSerialObj(address) == PyObj(<<Attr("address", PyStr(address))>>)

\* a Device as load_device_list_from_yml builds it
DeviceObj(name, uid, features, access, switch) ==
    PyObj(<<Attr("name", name), Attr("uid", uid), Attr("features", features),
            Attr("access", access), Attr("switch", switch)>>)

\* the devices queried: name, uid and features given or left at the
\* default of the loader, with and without access and switch
QueryObjs ==
    { DeviceObj(n, u, f, a, s) :
        n \in {PyStr(<<>>), PyStr(<<"B", "1">>)},
        u \in {PyStr(<<>>), PyStr(<<"U", "1">>)},
        f \in {PyList(<<>>), PyList(<<PyStr(<<"f", "1">>)>>)},
        a \in {PyNone, DevAccessSerialObj(<<"/", "d", "e", "v", "/", "A", "0">>)},
        s \in {PyNone, DevSwitchObj(<<"1", "-", "1">>, 2)} }

\* the attribute names asked for; serial_number is an attribute of no object
QueryKeys == {"name", "uid", "features", "access", "switch", "address", "hub",
              "port", "hw_controller", "last_cmd_output", "serial_number"}

\* the attr_value of a query
QueryValues == {PyNone, PyStr(<<>>), PyStr(<<"B", "1">>), PyStr(<<"B">>),
                PyStr(<<"/", "d", "e", "v", "/", "A", "0">>), PyStr(<<"/", "d", "e", "v", "/">>), PyStr(<<"f", "1">>)}

QuerierInit ==
    /\ obj \in QueryObjs
    /\ qcall = [op |-> "none"]
    /\ NoEngine
    /\ NoUhubctl
    /\ NoSwitch
    /\ NoLoad
    /\ NoRunner /\ NoReset /\ NoDoc

\* ObjectAttrQuerier(obj).query(attr_key, attr_value, exact)
Query ==
    /\ qcall.op = "none"
    /\ \E attr_key \in QueryKeys, attr_value \in QueryValues, exact \in BOOLEAN :
          qcall' = [op |-> "query", attr_key |-> attr_key,
                    attr_value |-> attr_value, exact |-> exact,
                    result |-> query(obj, attr_key, attr_value, exact)]
    /\ UNCHANGED obj
    /\ UNCHANGED <<engine_vars, uhub_vars, switch_vars, load_vars, runner_vars,
                   reset_vars, doc_vars>>

\* ObjectAttrQuerier(obj).query_deep(attr_key, attr_value, exact)
QueryDeep ==
    /\ qcall.op = "none"
    /\ \E attr_key \in QueryKeys, attr_value \in QueryValues, exact \in BOOLEAN :
          qcall' = [op |-> "query_deep", attr_key |-> attr_key,
                    attr_value |-> attr_value, exact |-> exact,
                    result |-> query_deep(obj, attr_key, attr_value, exact)]
    /\ UNCHANGED obj
    /\ UNCHANGED <<engine_vars, uhub_vars, switch_vars, load_vars, runner_vars,
                   reset_vars, doc_vars>>

QuerierNext == Query \/ QueryDeep

QuerierSpec == QuerierInit /\ [][QuerierNext]_vars

----------------------------------------------------------------------------
(* ObjectAttrQuerier.query_filtered, src/devs_query.py *)

\* longest list of filters of a query
MaxFilters == 2

\* ObjectAttrQuerier.AttrQueryFilter
AttrQueryFilter(attr_key, attr_value, exact) ==
    [attr_key |-> attr_key, attr_value |-> attr_value, exact |-> exact]

\* query_func of query_filtered
query_func(o, deep, attr_key, attr_value, exact) ==
    IF deep THEN query_deep(o, attr_key, attr_value, exact)
    ELSE query(o, attr_key, attr_value, exact)

\* the for loop of query_filtered: None at the first filter whose query
\* returns a false value, attr_value after the last filter
RECURSIVE query_filter_loop(_, _, _, _)
query_filter_loop(o, deep, query_filter_list, attr_value) ==
    IF query_filter_list = <<>> THEN attr_value
    ELSE LET query_filter == Head(query_filter_list)
             filter_attr_value ==
                 query_func(o, deep, query_filter.attr_key,
                            query_filter.attr_value, query_filter.exact)
         IN IF ~truthy(filter_attr_value) THEN PyNone
            ELSE query_filter_loop(o, deep, Tail(query_filter_list), attr_value)

\* ObjectAttrQuerier.query_filtered
query_filtered(o, attr_key, query_filter_list, deep) ==
    LET attr_value == query_func(o, deep, attr_key, PyNone, TRUE)
    IN IF ~truthy(attr_value) THEN PyNone
       ELSE query_filter_loop(o, deep, query_filter_list, attr_value)

\* the filters of the queries: by equality and by substring, on own and on
\* nested attributes, with an empty value, and without a value
QueryFilters ==
    { AttrQueryFilter("name", PyStr(<<"B", "1">>), TRUE),
      AttrQueryFilter("name", PyStr(<<"B">>), FALSE),
      AttrQueryFilter("name", PyStr(<<>>), TRUE),
      AttrQueryFilter("uid", PyStr(<<"U", "1">>), TRUE),
      AttrQueryFilter("address", PyStr(<<"/", "d", "e", "v", "/", "A", "0">>), TRUE),
      AttrQueryFilter("address", PyStr(<<"/", "d", "e", "v", "/">>), FALSE),
      AttrQueryFilter("features", PyStr(<<"f", "1">>), FALSE),
      AttrQueryFilter("switch", PyNone, TRUE) }

QueryFilterLists == UNION { [1..n -> QueryFilters] : n \in 0..MaxFilters }

\* the attributes asked for with filters
FilteredKeys == {"name", "uid", "features", "address", "port", "serial_number"}

\* ObjectAttrQuerier(obj).query_filtered(attr_key, query_filter_list, deep)
QueryFiltered ==
    /\ qcall.op = "none"
    /\ \E attr_key \in FilteredKeys, fl \in QueryFilterLists, deep \in BOOLEAN :
          qcall' = [op |-> "query_filtered", attr_key |-> attr_key,
                    query_filter_list |-> fl, deep |-> deep,
                    result |-> query_filtered(obj, attr_key, fl, deep)]
    /\ UNCHANGED obj
    /\ UNCHANGED <<engine_vars, uhub_vars, switch_vars, load_vars, runner_vars,
                   reset_vars, doc_vars>>

FilterNext == QueryFiltered

FilterSpec == QuerierInit /\ [][FilterNext]_vars

----------------------------------------------------------------------------
(* Properties *)

passed  == test_results.pass_test_name_list
failed  == test_results.fail_test_name_list
skipped == test_results.skip_test_name_list
ledger  == test_results.retry_test_list
max_retries == test_results.max_retries

\* the tests of the plan have pairwise distinct names
DistinctNames ==
    \A i, j \in DOMAIN plan : i # j => plan[i].name # plan[j].name

\* test i of the plan is still to be processed in the current pass
Pending(i) ==
    pc = "loop" /\ \E k \in idx..Len(test_list) : test_list[k] = i

\* the entries of retry list l for name n
EntriesOf(l, n) == { k \in DOMAIN l : l[k].test_name = n }

\* the for loop has processed every test of the current pass
PassOver == pc = "loop" /\ idx > Len(test_list)

\* the list of the pass that follows the current one
NextList == filter_retries(test_results, plan, test_list)

\* test i has been invoked max_retries + 1 times, its devices were there
\* every time it was processed and every invocation exited non-zero
FailedEveryTime(i) ==
    /\ i \in DOMAIN plan
    /\ clean[i]
    /\ invocations[i] = max_retries + 1

\* C1: a test whose devices are available in every pass and whose invocation
\* exits non-zero every time is invoked exactly max_retries + 1 times, in
\* the first max_retries + 1 passes; the loop then stops: the pass of its
\* last invocation has no next pass and its name is in failed; and the run
\* ends with exit code 1. Stated for plans with pairwise distinct test
\* names, where it already fails.
C1_AlwaysFailingTest ==
    DistinctNames =>
        \A i \in DOMAIN plan :
            /\ clean[i] => invocations[i] <= max_retries + 1
            /\ FailedEveryTime(i) =>
                  /\ ~Pending(i)
                  /\ In(plan[i].name, failed)
                  /\ PassOver => NextList = <<>>
                  /\ pc = "done" => exit_code = <<1>>

\* what the loop of run reads of the tracker: everything but the list of
\* skipped names, which register_skip appends to and the summary prints
LoopState(r) == [r EXCEPT !.skip_test_name_list = <<>>]

\* the pass that is over leaves the loop where it found it: there is a next
\* pass, it has the same list and starts with the same pass, fail and retry
\* lists
PassRepeats ==
    /\ PassOver
    /\ NextList # <<>>
    /\ NextList = test_list
    /\ LoopState(test_results) = LoopState(pass_start)

\* C2: the pass loop of run terminates, whatever the exit codes and the
\* availability of the devices are. What a pass does is decided by the list
\* and the tracker it starts with and by the environment, so a loop that
\* terminates for every behaviour of the environment has no pass that
\* leaves the list and the tracker (but for the log of skipped names, which
\* the loop does not read) as it found them: the environment of that pass
\* makes every later pass the same. Stated for plans with pairwise distinct
\* test names, where it already fails.
C2_LoopTerminates == DistinctNames => ~PassRepeats

\* C3: when the run has ended, the exit code is 1 if and only if failed is
\* not empty, and 0 otherwise.
C3_ExitCode ==
    pc = "done" =>
        /\ exit_code \in {<<0>>, <<1>>}
        /\ exit_code = <<1>> <=> failed # <<>>
        /\ failed = <<>> => exit_code = <<0>>

C3_Witness ==
    /\ pc = "done"
    /\ exit_code = <<0>>
    /\ skipped # <<>>
    /\ passed # <<>>

\* C4: with pairwise distinct test names, no name is in more than one of
\* passed, failed and skipped.
C4_Disjoint ==
    DistinctNames =>
        \A n \in Names :
            /\ ~(In(n, passed) /\ In(n, failed))
            /\ ~(In(n, passed) /\ In(n, skipped))
            /\ ~(In(n, failed) /\ In(n, skipped))

\* C5: a test that has been registered as skipped is not in the list of a
\* later pass (so it is never processed or invoked again). Stated for plans
\* with pairwise distinct test names, where it already fails.
C5_SkipTerminal ==
    DistinctNames => \A i \in ever_skipped : ~Pending(i)

\* C6: in an iteration where the dut has no access, or the test needs two
\* devices and the stub has no access, the test is registered as skipped and
\* nothing else is done: no cycle action, no invocation, no register_fail or
\* register_pass; and a one-device test whose dut has an access is not skipped.
C6_AvailabilityGate ==
    pc = "observed" =>
        /\ (\/ dut_dev.access = None
            \/ test.type \in {"multi", "multi_stub"} /\ stub_dev.access = None)
           => /\ events = <<"register_skip">>
              /\ In(test.name, skipped)
              /\ passed = before.pass_test_name_list
              /\ failed = before.fail_test_name_list
              /\ ledger = before.retry_test_list
        /\ (test.type \in {"single", "single_post_delay", "custom"}
                /\ dut_dev.access # None)
           => /\ ~In("register_skip", events)
              /\ In("run", events)
              /\ skipped = before.skip_test_name_list

C6_Witness ==
    /\ pc = "observed"
    /\ test.type = "multi_stub"
    /\ dut_dev.access # None /\ dut_dev.switch
    /\ stub_dev.access = None /\ stub_dev.switch
    /\ events = <<"register_skip">>
    /\ before.fail_test_name_list # <<>>

\* C7: register_fail for a name that is not in failed appends the name to
\* failed and appends a ledger entry for it with remaining = max_retries;
\* nothing else changes.
C7_FirstFailure ==
    (pc = "observed" /\ outcome = "fail" /\ ~In(arg, before.fail_test_name_list))
    => /\ failed = Append(before.fail_test_name_list, arg)
       /\ ledger = Append(before.retry_test_list,
                          [test_name |-> arg, retries |-> before.max_retries])
       /\ passed = before.pass_test_name_list
       /\ skipped = before.skip_test_name_list
       /\ max_retries = before.max_retries

C7_Witness ==
    /\ pc = "observed"
    /\ outcome = "fail"
    /\ ~In(arg, before.fail_test_name_list)
    /\ before.retry_test_list # <<>>
    /\ max_retries = MaxRetries
    /\ In(arg, failed)

\* C8: register_fail for a name already in failed lowers the remaining of
\* that name's ledger entry by exactly 1 and changes nothing else; hence from
\* a state where the name is not in failed, two failures leave its entry at
\* max_retries - 1, and a pass after them leaves no entry.
C8_RepeatedFailure ==
    /\ (pc = "observed" /\ outcome = "fail" /\ In(arg, before.fail_test_name_list))
       => /\ failed = before.fail_test_name_list
          /\ Count(arg, failed) = 1
          /\ \E k \in DOMAIN before.retry_test_list :
                /\ before.retry_test_list[k].test_name = arg
                /\ ledger = [before.retry_test_list EXCEPT
                                ![k].retries = before.retry_test_list[k].retries - 1]
          /\ passed = before.pass_test_name_list
          /\ skipped = before.skip_test_name_list
    /\ \A n \in Names :
          ~In(n, failed) =>
              LET s2 == register_fail(register_fail(test_results, n), n)
                  s3 == register_pass(s2, n)
              IN /\ \E k \in DOMAIN s2.retry_test_list :
                        /\ s2.retry_test_list[k].test_name = n
                        /\ s2.retry_test_list[k].retries = max_retries - 1
                 /\ Cardinality(EntriesOf(s2.retry_test_list, n)) = 1
                 /\ EntriesOf(s3.retry_test_list, n) = {}

C8_Witness ==
    /\ pc = "observed"
    /\ outcome = "fail"
    /\ In(arg, before.fail_test_name_list)
    /\ Len(before.retry_test_list) = 2
    /\ \E k \in DOMAIN ledger :
          ledger[k].test_name = arg /\ ledger[k].retries = max_retries - 1

\* C9: register_pass removes the name from failed and removes its ledger
\* entry, leaves the name in passed exactly once and everything else as it
\* was; a second register_pass of the name changes nothing.
C9_RegisterPass ==
    (pc = "observed" /\ outcome = "pass")
    => /\ ~In(arg, failed)
       /\ EntriesOf(ledger, arg) = {}
       /\ Count(arg, passed) = 1
       /\ failed = SelectSeq(before.fail_test_name_list, LAMBDA n : n # arg)
       /\ ledger = SelectSeq(before.retry_test_list, LAMBDA e : e.test_name # arg)
       /\ passed = IF In(arg, before.pass_test_name_list)
                   THEN before.pass_test_name_list
                   ELSE Append(before.pass_test_name_list, arg)
       /\ skipped = before.skip_test_name_list
       /\ register_pass(test_results, arg) = test_results

C9_Witness ==
    /\ pc = "observed"
    /\ outcome = "pass"
    /\ In(arg, before.fail_test_name_list)
    /\ In(arg, before.pass_test_name_list)
    /\ Len(before.retry_test_list) = 2

\* the tests of list tl whose name has a ledger entry with remaining > 0, in
\* the order of tl
Retryable(tl) ==
    SelectSeq(tl, LAMBDA t :
        \E k \in DOMAIN ledger :
            ledger[k].test_name = plan[t].name /\ ledger[k].retries > 0)

\* C10: at the end of a pass, the next pass's list is the current list
\* restricted to the tests whose name has a ledger entry with remaining > 0:
\* same order, no test more often than before.
C10_NextPassList ==
    [][ (pc = "loop" /\ idx > Len(test_list)) => test_list' = Retryable(test_list) ]_vars

C10_Witness ==
    /\ pc = "loop"
    /\ idx = 1
    /\ Len(plan) = 2
    /\ test_list = <<2>>
    /\ passed # <<>>
    /\ ledger # <<>>

----------------------------------------------------------------------------
(* Properties of the power controller *)

Max(S) == CHOOSE x \in S : \A y \in S : x >= y

\* the hub in whose section line i of the tool output lies: the hub of the
\* last hub header before it
SectionHub(ls, i) ==
    LET H == { j \in 1..(i - 1) : ls[j].kind = "hub" }
    IN IF H = {} THEN Nothing ELSE Just(ls[Max(H)].hub)

\* the lines of port p in a section of hub h
PortLinesOf(ls, h, p) ==
    { i \in DOMAIN ls :
        ls[i].kind = "port" /\ ls[i].port = p /\ SectionHub(ls, i) = Just(h) }

\* the port lines in a section of some hub
PortLines(ls) ==
    { i \in DOMAIN ls : ls[i].kind = "port" /\ SectionHub(ls, i) # Nothing }

\* the four status values
StatusValues == {"off", "on connected", "on", "unknown"}

\* the last call was get_status, and the tool printed a line for its pair
StatusOfLine ==
    /\ call.op = "get_status"
    /\ PortLinesOf(uhub_lines, call.hub[1], call.port[1]) # {}

\* the text of the first line printed for the pair of the last get_status
MatchingLine ==
    Render(uhub_lines[Min(PortLinesOf(uhub_lines, call.hub[1], call.port[1]))])

\* C11: get_status returns one of the four status values, and for the line
\* of its hub and port: off if the line contains " off"; otherwise on
\* connected if it contains " power" and "enable connect"; otherwise on if
\* it contains " power"; otherwise unknown.
C11_StatusPriority ==
    call.op = "get_status" =>
        /\ call.result \in StatusValues
        /\ StatusOfLine =>
              LET off == contains(MatchingLine, STR_off)
                  power == contains(MatchingLine, STR_power)
                  connect == contains(MatchingLine, STR_enable_connect)
              IN /\ off => call.result = "off"
                 /\ ~off /\ power /\ connect => call.result = "on connected"
                 /\ ~off /\ power /\ ~connect => call.result = "on"
                 /\ ~off /\ ~power => call.result = "unknown"

\* a line with " off", " power" and "enable connect" was classified as off
C11_Witness ==
    /\ StatusOfLine
    /\ contains(MatchingLine, STR_off)
    /\ contains(MatchingLine, STR_power)
    /\ contains(MatchingLine, STR_enable_connect)
    /\ call.result = "off"

\* C12: get_status(h, p) returns the status of the first line of port p that
\* lies in a section of hub h, whatever other sections hold a line of port
\* p and wherever they are; with no such line it returns unknown.
C12_SectionOfHub ==
    call.op = "get_status" =>
        IF StatusOfLine
        THEN call.result = port_status(strip(MatchingLine))
        ELSE call.result = "unknown"

\* two sections hold a line of the port asked for, with different statuses,
\* and the answer is the status of the line in the second section
C12_Witness ==
    /\ StatusOfLine
    /\ \E i \in PortLines(uhub_lines) :
          /\ uhub_lines[i].port = call.port[1]
          /\ SectionHub(uhub_lines, i) # call.hub
          /\ i < Min(PortLinesOf(uhub_lines, call.hub[1], call.port[1]))
          /\ port_status(strip(Render(uhub_lines[i]))) # call.result
    /\ call.result = "on connected"

\* the (hub, port) pairs of the port lines i, i+1, ... of the output
RECURSIVE PairsFrom(_, _)
PairsFrom(ls, i) ==
    IF i > Len(ls) THEN <<>>
    ELSE (IF i \in PortLines(ls)
          THEN << <<SectionHub(ls, i)[1], ls[i].port>> >> ELSE <<>>)
         \o PairsFrom(ls, i + 1)

\* C13: scan_hubs_ports returns one (hub, port) pair for every port line
\* that follows a hub header, whatever its port number, in output order and
\* with duplicates kept.
C13_ScanAllPairs ==
    call.op = "scan_hubs_ports" => call.result = PairsFrom(uhub_lines, 1)

\* the pairs of the port lines with a port number other than 0
RECURSIVE NonZeroPairsFrom(_, _)
NonZeroPairsFrom(ls, i) ==
    IF i > Len(ls) THEN <<>>
    ELSE (IF i \in PortLines(ls) /\ ls[i].port # 0
          THEN << <<SectionHub(ls, i)[1], ls[i].port>> >> ELSE <<>>)
         \o NonZeroPairsFrom(ls, i + 1)

\* what scan_hubs_ports does return: the pairs with a port number other than 0
ScanNonZeroPairs ==
    call.op = "scan_hubs_ports" => call.result = NonZeroPairsFrom(uhub_lines, 1)

\* the port lines in a hub section whose text contains s
DescLines(ls, s) == { i \in PortLines(ls) : contains(Render(ls[i]), s) }

\* C14: get_hub_port_by_desc(s) returns the hub of the section and the port
\* number of the first port line whose text contains s, and (None, None)
\* when no port line in a hub section contains s; a hub header that
\* contains s gives no result.
C14_FirstLineByDesc ==
    call.op = "get_hub_port_by_desc" =>
        LET M == DescLines(uhub_lines, call.desc_match)
        IN IF M = {}
           THEN call.result = <<Nothing, Nothing>>
           ELSE call.result =
                    <<SectionHub(uhub_lines, Min(M)), Just(uhub_lines[Min(M)].port)>>

\* what get_hub_port_by_desc does return: the first such line with a port
\* number other than 0
DescNonZeroPort ==
    call.op = "get_hub_port_by_desc" =>
        LET M == { i \in DescLines(uhub_lines, call.desc_match) :
                     uhub_lines[i].port # 0 }
        IN IF M = {}
           THEN call.result = <<Nothing, Nothing>>
           ELSE call.result =
                    <<SectionHub(uhub_lines, Min(M)), Just(uhub_lines[Min(M)].port)>>

\* the tool of the last call exited non-zero; with or without the message
\* that no device is detected on its stderr
FailedNoDevices ==
    /\ call.op # "none"
    /\ call.proc.returncode # 0
    /\ contains(call.proc.stderr, STR_NoCompatibleDevices)

FailedOtherwise ==
    /\ call.op # "none"
    /\ call.proc.returncode # 0
    /\ ~contains(call.proc.stderr, STR_NoCompatibleDevices)

\* the last call returned what a query returns on an empty output
EmptyObservation ==
    /\ call.op = "scan_hubs_ports" => call.result = <<>>
    /\ call.op = "get_status" => call.result = "unknown"
    /\ call.op = "get_hub_port_by_desc" => call.result = <<Nothing, Nothing>>

IsQuery == call.op \in {"scan_hubs_ports", "get_status", "get_hub_port_by_desc"}

\* C15: after a call whose tool exited non-zero with "No compatible devices
\* detected!" on stderr the captured output is empty, whatever the stdout
\* of the tool, and the call returned the empty observation.
C15_NoDevicesIsEmpty ==
    FailedNoDevices => last_cmd_output = <<>> /\ EmptyObservation

\* a query whose tool printed a port line and failed for want of devices
C15_Witness ==
    /\ FailedNoDevices
    /\ IsQuery
    /\ call.proc.stdout # <<>>
    /\ last_cmd_output = <<>>

\* C16: after a call whose tool exited non-zero for another reason the
\* captured output is empty, whatever the stdout of the tool, and the call
\* returned the empty observation.
C16_OtherFailureIsEmpty ==
    FailedOtherwise => last_cmd_output = <<>> /\ EmptyObservation

\* the positions of argument a in an argument vector
ArgPositions(argv, a) == { i \in DOMAIN argv : argv[i] = a }

\* C17: run_action invokes uhubctl with --action and the action first, then
\* --location and the hub exactly when a hub is given, then --port and the
\* port exactly when a port is given; it returns nothing.
C17_RunActionArguments ==
    call.op = "run_action" =>
        LET argv == call.argv
            n == 3 + (IF call.hub # Nothing THEN 2 ELSE 0)
                   + (IF call.port # Nothing THEN 2 ELSE 0)
        IN /\ Len(argv) = n
           /\ argv[1] = STR_uhubctl
           /\ argv[2] = STR_action /\ argv[3] = call.action
           /\ IF call.hub # Nothing
              THEN ArgPositions(argv, STR_location) = {4} /\ argv[5] = call.hub[1]
              ELSE ArgPositions(argv, STR_location) = {}
           /\ IF call.port # Nothing
              THEN /\ ArgPositions(argv, STR_port) = {n - 1}
                   /\ argv[n] = str(call.port[1])
              ELSE ArgPositions(argv, STR_port) = {}
           /\ call.result = Nothing

\* run_action with a hub and a port
C17_Witness ==
    /\ call.op = "run_action"
    /\ call.hub # Nothing
    /\ call.port # Nothing
    /\ Len(call.argv) = 7

\* what a query returns on the captured output
QueryResultOn(c, out) ==
    IF c.op = "get_status" THEN output_search_port_status(out, c.hub, c.port)
    ELSE IF c.op = "scan_hubs_ports" THEN output_scan_hub_ports(out)
    ELSE IF c.op = "get_hub_port_by_desc"
    THEN output_search_hub_port_by_desc(out, c.desc_match)
    ELSE Nothing

\* C18: every call overwrites the captured output with the stdout of its
\* own invocation or with the empty output, and returns what that output
\* holds; two consecutive scan_hubs_ports calls that get the same answer of
\* the tool return the same list.
C18_SingleBuffered ==
    [][ /\ last_cmd_output' \in {<<>>, call'.proc.stdout}
        /\ call'.proc.returncode = 0 => last_cmd_output' = call'.proc.stdout
        /\ call'.result = QueryResultOn(call', last_cmd_output')
        /\ (/\ call.op = "scan_hubs_ports"
            /\ call'.op = "scan_hubs_ports"
            /\ call'.proc = call.proc) => call'.result = call.result
      ]_vars

\* a query made while the output of an earlier call was still captured, and
\* which did not read it
C18_Witness ==
    /\ IsQuery
    /\ call.before # <<>>
    /\ call.before # call.proc.stdout
    /\ last_cmd_output # call.before
    /\ call.result # QueryResultOn(call, call.before)

\* the last action on port q, and the one before it
LastAction(q) == trail[q].last
PrevAction(q) == trail[q].prev

\* what get_status returns for a powered port
PoweredValues == {"on", "on connected"}

\* C19: against the tool that applies the actions, get_status of a port
\* returns 'off' when the last action on the port was off, 'on' or
\* 'on connected' when it was on or cycle, and 'off' when it was a toggle
\* that followed an on.
C19_ActionsThenStatus ==
    call.op = "get_status" =>
        LET q == call.port[1]
        IN /\ LastAction(q) = Just(<<"o", "f", "f">>) => call.result = "off"
           /\ LastAction(q) = Just(<<"o", "n">>) => call.result \in PoweredValues
           /\ LastAction(q) = Just(<<"c", "y", "c", "l", "e">>) =>
                  call.result \in PoweredValues
           /\ (/\ LastAction(q) = Just(<<"t", "o", "g", "g", "l", "e">>)
               /\ PrevAction(q) = Just(<<"o", "n">>)) => call.result = "off"

\* get_status of a port returned 'off' after on and then toggle on that
\* port, while the other port of the hub is powered
C19_Witness ==
    /\ call.op = "get_status"
    /\ LastAction(call.port[1]) = Just(<<"t", "o", "g", "g", "l", "e">>)
    /\ PrevAction(call.port[1]) = Just(<<"o", "n">>)
    /\ call.result = "off"
    /\ \E q \in SwitchPorts : q # call.port[1] /\ hub_power[q]

\* the list load_device_list_from_yml returned
Loaded == dev_obj_list[1]

\* C20: load_device_list_from_yml returns one Device per record of the
\* document, in the order of the document, with the uid, the name and the
\* features of the record (the default of the code for a key the record
\* lacks), whether or not the device is connected.
C20_OneDevicePerRecord ==
    dev_obj_list # <<>> =>
        /\ Len(Loaded) = Len(dev_yml_dict)
        /\ \A i \in DOMAIN dev_yml_dict :
              LET dev == dev_yml_dict[i]
              IN /\ Loaded[i].uid = (IF "uid" \in DOMAIN dev THEN dev.uid ELSE <<>>)
                 /\ Loaded[i].name = (IF "name" \in DOMAIN dev THEN dev.name ELSE "")
                 /\ Loaded[i].features =
                        (IF "features" \in DOMAIN dev THEN dev.features ELSE <<>>)

\* a document of two records was loaded: the first device is on a serial
\* interface and on a hub port, the second is on neither
C20_Witness ==
    /\ dev_obj_list # <<>>
    /\ Len(dev_yml_dict) = 2
    /\ Len(Loaded) = 2
    /\ Loaded[1].access # Nothing /\ Loaded[1].switch # Nothing
    /\ Loaded[2].access = Nothing /\ Loaded[2].switch = Nothing
    /\ Loaded[2].uid = UidB

\* the serial interfaces whose serial number is uid
InterfacesOf(uid) ==
    { i \in DOMAIN comports : comports[i].serial_number = Just(uid) }

\* C21: every loaded Device keeps its record; its access is the endpoint of
\* a connected serial interface whose serial number is its uid, and None
\* when there is no such interface; its switch is the hub and port of the
\* first port line of the search output that contains its uid, and None
\* when no port line contains it; the one binding does not depend on the
\* other.
C21_BindAtConstruction ==
    dev_obj_list # <<>> =>
        /\ Len(Loaded) = Len(dev_yml_dict)
        /\ \A i \in DOMAIN Loaded :
              LET d == Loaded[i]
                  I == InterfacesOf(d.uid)
                  M == DescLines(uhub_lines, d.uid)
              IN /\ I = {} => d.access = Nothing
                 /\ I # {} =>
                        \E j \in I : d.access = Just([address |-> comports[j].device])
                 /\ M = {} => d.switch = Nothing
                 /\ M # {} =>
                        d.switch = Just([hub |-> SectionHub(uhub_lines, Min(M))[1],
                                         port |-> uhub_lines[Min(M)].port])

\* two devices were loaded: one on a hub port and on no serial interface,
\* the other on a serial interface and on no hub port
C21_Witness ==
    /\ dev_obj_list # <<>>
    /\ Len(Loaded) = 2
    /\ Loaded[1].access = Nothing /\ Loaded[1].switch # Nothing
    /\ Loaded[2].access # Nothing /\ Loaded[2].switch = Nothing

----------------------------------------------------------------------------
(* Properties of TestRunner *)

\* the loaded test case and what the record of the plan declares
Runner == test_runner[1]
DeclaredType == dict_get(yml_test, "type", None)
DeclaredTest == dict_get(yml_test, "test", <<>>)
DeclaredStub == dict_get(yml_test, "stub", <<>>)

\* the processes whose exit code the run read, and the sleeps of the run
Procs == SelectSeq(proc_log, LAMBDA e : e.kind = "proc")
Sleeps == SelectSeq(proc_log, LAMBDA e : e.kind = "sleep")

\* the scripts of the loaded test case: directories replaced by the .py
\* files in them, excluded scripts removed
Resolved ==
    remove_excluded_tests(expanded_test_list(Runner.test_script_list),
                          Runner.test_exclude_list)

\* the command of the script-running collaborator for the dut endpoint
RunTestsCmd == <<"python", "run-tests.py", "-t", "port:/dev/ttyACM0">>

\* C22: the type of a test case is the declared type when one is given;
\* otherwise multi_stub if the record has a stub script, else
\* single_post_delay if post_test_delay_ms > 0, else single: the inferred
\* type is never multi or custom and the stub script goes before the delay.
C22_TypeInference ==
    test_runner # <<>> =>
        /\ DeclaredType # None => Runner.type = DeclaredType
        /\ DeclaredType = None =>
              /\ Runner.type =
                    IF "script" \in DOMAIN DeclaredStub THEN "multi_stub"
                    ELSE IF dict_get(DeclaredTest, "post_test_delay_ms", 0) > 0
                    THEN "single_post_delay"
                    ELSE "single"
              /\ Runner.type \notin {"multi", "custom"}

\* an undeclared type, with a stub script and a positive delay: multi_stub
C22_Witness ==
    /\ test_runner # <<>>
    /\ DeclaredType = None
    /\ "script" \in DOMAIN DeclaredStub
    /\ dict_get(DeclaredTest, "post_test_delay_ms", 0) > 0
    /\ Runner.type = "multi_stub"

\* C23: the post_stub_delay_ms of the loaded test case is the value the
\* record declares in its stub section, 0 when the key is absent, and that
\* value is the delay between the stub script and the dut test of a
\* multi_stub test.
C23_StubDelayFromStubSection ==
    LET declared == dict_get(DeclaredStub, "post_stub_delay_ms", 0)
    IN /\ test_runner # <<>> => Runner.post_stub_delay_ms = declared
       /\ (run_ret # <<>> /\ Runner.type = "multi_stub" /\ Len(Procs) >= 2) =>
             Sleeps = IF declared > 0
                      THEN <<[kind |-> "sleep", ms |-> declared]>>
                      ELSE <<>>

\* C28 as the specification states it: a single or single_post_delay test
\* whose processes all succeed makes one call of the collaborator per
\* resolved script, and only single_post_delay sleeps between them.
C28_OncePerScript ==
    (run_ret = <<0>> /\ Runner.type \in {"single", "single_post_delay"}) =>
        /\ Len(Procs) = Len(Resolved)
        /\ Runner.type = "single" => Sleeps = <<>>

\* C28, amended: a single test makes exactly one call of the collaborator,
\* with all its declared scripts (-d before a directory) and its excludes,
\* and never sleeps; a single_post_delay test calls the collaborator once
\* per resolved script, in order, until one fails, returns 0 exactly when
\* all of them ran and succeeded, and sleeps post_test_delay_ms after each
\* script that succeeded when that delay is positive.
C28_CollaboratorCalls ==
    (run_ret # <<>> /\ Runner.type \in {"single", "single_post_delay"}) =>
        IF Runner.type = "single"
        THEN /\ Len(Procs) = 1
             /\ Procs[1].cmd = RunTestsCmd
                                \o single_test_list_args(Runner.test_script_list)
                                \o test_list_exclude_args(Runner.test_exclude_list)
             /\ run_ret[1] = Procs[1].rc
             /\ Sleeps = <<>>
        ELSE /\ Len(Procs) <= Len(Resolved)
             /\ \A i \in 1..Len(Procs) :
                   /\ Procs[i].cmd = RunTestsCmd \o <<Resolved[i]>>
                   /\ i < Len(Procs) => Procs[i].rc = 0
             /\ run_ret[1] = 0 <=>
                   /\ Len(Procs) = Len(Resolved)
                   /\ \A i \in 1..Len(Procs) : Procs[i].rc = 0
             /\ run_ret[1] # 0 => run_ret[1] = Procs[Len(Procs)].rc
             /\ Len(Sleeps) =
                   IF Runner.post_test_delay_ms > 0
                   THEN Cardinality({ i \in 1..Len(Procs) : Procs[i].rc = 0 })
                   ELSE 0
             /\ \A i \in 1..Len(Sleeps) :
                   Sleeps[i].ms = Runner.post_test_delay_ms

\* a single test of two declared scripts that passed with one call
C28_Witness ==
    /\ run_ret = <<0>>
    /\ Runner.type = "single"
    /\ Len(Runner.test_script_list) = 2
    /\ Len(Procs) = 1

\* C29: a custom test runs every declared script as a process of its own,
\* in the declared order, each with the dut endpoint followed by the extra
\* arguments; it goes on after a failing script, and its result is 0 if
\* and only if every script exited 0, otherwise 1.
C29_CustomRunsAll ==
    (run_ret # <<>> /\ Runner.type = "custom") =>
        /\ Len(proc_log) = Len(Runner.test_script_list)
        /\ \A i \in 1..Len(proc_log) :
              /\ proc_log[i].kind = "proc"
              /\ proc_log[i].cmd =
                    <<"python", Runner.test_script_list[i], "/dev/ttyACM0">>
                    \o dict_get(DeclaredTest, "args", <<>>)
        /\ run_ret[1] = IF \A i \in 1..Len(proc_log) : proc_log[i].rc = 0
                        THEN 0 ELSE 1

\* a custom test with extra arguments whose first script failed and whose
\* second script ran and succeeded
C29_Witness ==
    /\ run_ret = <<1>>
    /\ Runner.type = "custom"
    /\ Runner.custom_args # <<>>
    /\ Len(proc_log) = 2
    /\ proc_log[1].rc # 0
    /\ proc_log[2].rc = 0

----------------------------------------------------------------------------
(* Properties of one pass of the for loop *)

\* the status polls of device d in the iteration, in order
PollsOf(d) == SelectSeq(events, LAMBDA e : e.op = "status" /\ e.dev = d)

\* the entries of the iteration with operation op
EventsOf(op) == SelectSeq(events, LAMBDA e : e.op = op)

\* the pass is resetting the devices of a test
InReset == pc \in {"dev", "while", "sleep", "settle"}

\* C24: after the cycle action of a device its status is polled at most 5
\* times, and no poll follows one that reported 'on connected' or the 5th.
C24_AtMostFivePolls ==
    \A d \in {"dut", "stub"} :
        LET p == PollsOf(d)
        IN /\ Len(p) <= 5
           /\ \A k \in 1..(Len(p) - 1) : p[k].status # "on connected"

\* C25: the reset of the devices of a test always comes to the invocation
\* of the test; every device with a switch has had its 2-second settle
\* delay by then, whether or not a poll reported 'on connected'; the
\* tracker changes only at the gate and at the registration, and the
\* registration is register_pass for exit code 0 and register_fail for any
\* other, whatever the polls reported.
C25_ResetNeverAborts ==
    /\ [](\A i \in 1..2 :
             (pc \in {"run", "register"} /\ devs_to_reset[i].switch) =>
                 Len(SelectSeq(events, LAMBDA e :
                         e = Ev("sleep", DevName(i), "", 2))) = 1)
    /\ [][/\ test_results' # test_results => pc \in {"for", "register"}
          /\ pc \in {"dev", "while", "sleep", "settle", "run"} =>
                pc' \in {"dev", "while", "sleep", "settle", "run", "register"}
          /\ pc = "register" =>
                test_results' = IF ret_code[1] # 0
                                THEN register_fail(test_results, arg)
                                ELSE register_pass(test_results, arg)]_vars
    /\ InReset ~> (pc = "register")

\* a test passed although the dut never reported 'on connected'
C25_Witness ==
    /\ pc = "for"
    /\ outcome = "pass"
    /\ dut_dev.switch
    /\ Len(PollsOf("dut")) > 1
    /\ \A k \in 1..Len(PollsOf("dut")) : PollsOf("dut")[k].status # "on connected"
    /\ \E k \in 1..Len(events) : events[k] = Ev("sleep", "dut", "", 2)

\* C27: a test that passes the gate is invoked exactly once in the pass and
\* registered exactly once, after the invocation: as passed if the exit
\* code is 0 and as failed otherwise; a test the gate rejects is not
\* invoked.
C27_InvokedAndRegisteredOnce ==
    /\ \A i \in 1..Len(test_list) :
          invocations[i] =
              IF i < idx /\ i \notin ever_skipped THEN 1
              ELSE IF i = idx /\ pc = "register" THEN 1
              ELSE 0
    /\ (pc = "for" /\ outcome \in {"pass", "fail"}) =>
          /\ Len(EventsOf("run")) = 1
          /\ Len(EventsOf("register_pass")) + Len(EventsOf("register_fail")) = 1
          /\ EventsOf("register_skip") = <<>>
          /\ events[Len(events) - 1] = Ev("run", "", "", ret_code[1])
          /\ events[Len(events)].op =
                IF ret_code[1] = 0 THEN "register_pass" ELSE "register_fail"
          /\ IF ret_code[1] = 0
             THEN /\ In(arg, test_results.pass_test_name_list)
                  /\ ~In(arg, test_results.fail_test_name_list)
             ELSE In(arg, test_results.fail_test_name_list)
    /\ (pc = "for" /\ outcome = "skip") =>
          events = <<Ev("register_skip", "", "", 0)>>

\* a pass of two tests, both invoked: the first failed, the second passed
C27_Witness ==
    /\ pc = "footer"
    /\ Len(test_list) = 2
    /\ invocations = <<1, 1>>
    /\ plan[1].name # plan[2].name
    /\ In(plan[1].name, test_results.fail_test_name_list)
    /\ In(plan[2].name, test_results.pass_test_name_list)
    /\ outcome = "pass"

----------------------------------------------------------------------------
(* Properties of a run in HIL mode *)

\* C26: when the test plan document or the device registry document is
\* missing or cannot be parsed, the run ends with exit code 1 and no test
\* has been invoked, whatever the plan and the selection.
C26_DocumentErrorsAreFatal ==
    (pc = "done" /\ (test_plan_file # "ok" \/ hil_devs_file # "ok")) =>
        /\ exit_code = <<1>>
        /\ \A i \in DOMAIN invocations : invocations[i] = 0

----------------------------------------------------------------------------
(* Properties of ObjectAttrQuerier *)

\* the objects directly nested in o that have attribute key
NestedWith(o, key) == { i \in DOMAIN o.v : hasattr(o.v[i].val, key) }

\* C30: query(key) is the value of the object's own attribute and None
\* when the object has no such attribute, although a nested object may;
\* query_deep(key) is the same value for an own attribute, otherwise the
\* value of the attribute of the first object nested one level below that
\* has it, and is None only when neither the object nor a directly nested
\* object has the attribute with a value other than None.
C30_QueryAndQueryDeep ==
    (qcall.op # "none" /\ qcall.attr_value.t = "none") =>
        LET key == qcall.attr_key
            own == hasattr(obj, key)
            nested == NestedWith(obj, key)
        IN IF qcall.op = "query"
           THEN py_eq(qcall.result, IF own THEN getattr(obj, key) ELSE PyNone)
           ELSE /\ own => py_eq(qcall.result, getattr(obj, key))
                /\ (~own /\ nested # {}) =>
                      \E i \in nested : py_eq(qcall.result, getattr(obj.v[i].val, key))
                /\ qcall.result.t = "none" =>
                      /\ own => getattr(obj, key).t = "none"
                      /\ \A i \in nested : getattr(obj.v[i].val, key).t = "none"

----------------------------------------------------------------------------
(* Properties of query_filtered *)

\* the value of attribute key of o, or of the first object nested one
\* level below o that has it when deep; None when there is none
FoundValue(o, key, deep) ==
    IF hasattr(o, key) THEN getattr(o, key)
    ELSE IF deep /\ NestedWith(o, key) # {}
    THEN getattr(o.v[CHOOSE i \in NestedWith(o, key) :
                        \A j \in NestedWith(o, key) : i <= j].val, key)
    ELSE PyNone

\* filter f matches o: its attribute is found and, by equality or by
\* substring, has the value of the filter; a filter without a value asks
\* for the attribute only
FilterMatches(o, f, deep) ==
    LET a == FoundValue(o, f.attr_key, deep)
    IN IF f.attr_value.t = "none" THEN a.t # "none"
       ELSE IF f.exact THEN py_eq(a, f.attr_value)
       ELSE a.t = "str" /\ contains(a.v, f.attr_value.v)

\* C31: query_filtered(key, filters, deep) returns the value of the
\* attribute if and only if the attribute is found and every filter
\* matches, exact filters by equality and the others by substring, and
\* None otherwise; without deep a filter on an attribute that only a
\* nested object has never matches.
C31_FilteredQuery ==
    qcall.op = "query_filtered" =>
        LET found == FoundValue(obj, qcall.attr_key, qcall.deep)
            fl == qcall.query_filter_list
        IN IF /\ found.t # "none"
              /\ \A i \in DOMAIN fl : FilterMatches(obj, fl[i], qcall.deep)
           THEN py_eq(qcall.result, found)
           ELSE qcall.result.t = "none"

----------------------------------------------------------------------------
(* Properties of the reset sequence *)

\* the positions of the entries of device d in the record of the iteration
PositionsOf(d) == { k \in DOMAIN events : events[k].dev = d }

\* the reset of device d is complete in the record: it starts with the
\* cycle action and ends with the settle delay, with polls and one-second
\* sleeps only in between, and nothing else happens meanwhile
ResetComplete(d) ==
    /\ PositionsOf(d) # {}
    /\ LET a == CHOOSE k \in PositionsOf(d) : \A j \in PositionsOf(d) : k <= j
           b == CHOOSE k \in PositionsOf(d) : \A j \in PositionsOf(d) : j <= k
       IN /\ PositionsOf(d) = a..b
          /\ a < b
          /\ events[a] = Ev("cycle", d, "", 0)
          /\ events[b] = Ev("sleep", d, "", 2)
          /\ \A k \in (a + 1)..(b - 1) :
                \/ events[k].op = "status"
                \/ events[k] = Ev("sleep", d, "", 1)

\* C32: for a test that passes the gate a cycle action is issued for the
\* dut and then for the stub, for each of them that has a switch and for
\* neither without one; the cycle, the polls and the settle delay of a
\* device are over before the next device is handled, and every reset is
\* over before the test is invoked.
C32_ResetSequence ==
    /\ ~dut_dev.switch => PositionsOf("dut") = {}
    /\ ~stub_dev.switch => PositionsOf("stub") = {}
    /\ \A d \in {"dut", "stub"} :
          /\ Len(SelectSeq(events, LAMBDA e : e.op = "cycle" /\ e.dev = d)) <= 1
          /\ PositionsOf(d) # {} =>
                \E a \in PositionsOf(d) :
                    /\ events[a] = Ev("cycle", d, "", 0)
                    /\ \A k \in PositionsOf(d) : a <= k
    /\ PositionsOf("stub") # {} =>
          /\ \A i \in PositionsOf("dut"), j \in PositionsOf("stub") : i < j
          /\ dut_dev.switch => ResetComplete("dut")
    /\ EventsOf("run") # <<>> =>
          /\ dut_dev.switch => ResetComplete("dut")
          /\ stub_dev.switch => ResetComplete("stub")
          /\ \A k \in DOMAIN events :
                events[k].op = "run" =>
                    \A j \in PositionsOf("dut") \cup PositionsOf("stub") : j < k

\* a test is invoked after the reset of its dut and then of its stub, the
\* stub connected at its third poll
C32_Witness ==
    /\ pc = "register"
    /\ dut_dev.switch
    /\ stub_dev.switch
    /\ ResetComplete("dut")
    /\ ResetComplete("stub")
    /\ Len(PollsOf("stub")) = 3
    /\ events[Len(events)].op = "run"

----------------------------------------------------------------------------
(* Properties of a multi_stub test *)

\* the command that runs the stub script on the stub endpoint
StubCmd ==
    <<"tests/../tools/mpremote/mpremote.py", "connect", "/dev/ttyACM1",
      "run", "--no-follow", Runner.stub_script>>

\* test.run has been called: it has returned, or it has left a trace
HasRun == run_ret # <<>> \/ proc_log # <<>>

----------------------------------------------------------------------------
(* Properties of the device resolution in HIL mode *)

\* the candidates of a role for the test of the last resolution, from the
\* registry and the hardware connected when it was made
Candidates(device_role) ==
    get_devs_for_role(call.test_case, Board, device_role,
                      load_available_devs(call.ports))

\* candidate i of the dut role is the first one with an access
FirstDut(i) ==
    /\ i \in DOMAIN Candidates("dut")
    /\ Candidates("dut")[i].access # Nothing
    /\ \A j \in 1..(i - 1) : Candidates("dut")[j].access = Nothing

\* candidate k of the stub role has an access at another address than dut d
OtherThan(d, k) ==
    /\ Candidates("stub")[k].access # Nothing
    /\ Candidates("stub")[k].access # d.access

\* the devices the test needs are there: a dut, and for a test of two
\* devices a stub at another address
Available ==
    \E i \in DOMAIN Candidates("dut") :
        /\ FirstDut(i)
        /\ requires_multiple_devs(call.test_case.type) =>
              \E k \in DOMAIN Candidates("stub") :
                  OtherThan(Candidates("dut")[i], k)

\* C34: every time a test is processed in HIL mode its devices are resolved
\* from the registry and the hardware connected at that time, and the test
\* is skipped exactly when they are not available then, invoked otherwise,
\* in the first pass and in every retry pass.
C34_ResolvedOnEveryPass ==
    call.op = "get_test_devs" =>
        /\ outcome \in {"skip", "pass", "fail"}
        /\ outcome = "skip" <=> ~Available

\* C35: the resolution returns as dut the first candidate with an access
\* and, for a test of two devices, as stub the first stub candidate with an
\* access at another address; without such a candidate the stub stays
\* unresolved and the test is skipped; a test of two devices is never
\* invoked with one address for both.
C35_HilResolution ==
    call.op = "get_test_devs" =>
        /\ ~call.result.raised
        /\ LET dut == call.result.devs[1]
               stub == call.result.devs[2]
               two == requires_multiple_devs(call.test_case.type)
           IN /\ \A i \in DOMAIN Candidates("dut") :
                    FirstDut(i) => dut = Candidates("dut")[i]
              /\ (two /\ dut.access # Nothing) =>
                    /\ \A k \in DOMAIN Candidates("stub") :
                          ( /\ OtherThan(dut, k)
                            /\ \A j \in 1..(k - 1) : ~OtherThan(dut, j) )
                          => stub = Candidates("stub")[k]
                    /\ (\A k \in DOMAIN Candidates("stub") : ~OtherThan(dut, k))
                          => (stub.access = Nothing /\ outcome = "skip")
              /\ (two /\ outcome \in {"pass", "fail"}) => dut.access # stub.access

----------------------------------------------------------------------------
(* Properties of the result lists and the retry list *)

\* the names of a list of names, and of a list of retry entries
NamesIn(l) == { l[k] : k \in DOMAIN l }
EntryNames(l) == { l[k].test_name : k \in DOMAIN l }

\* C36: after any sequence of register_skip, register_fail and
\* register_pass calls, the names with an entry in the retry list are the
\* names in failed, and no name has more than one entry.
C36_LedgerIsFailed ==
    /\ EntryNames(ledger) = NamesIn(failed)
    /\ \A j, k \in DOMAIN ledger :
          j # k => ledger[j].test_name # ledger[k].test_name

\* one name has passed after a failure and the other one has failed twice
C36_Witness ==
    /\ In("T1", passed)
    /\ Len(ledger) = 1
    /\ ledger[1].test_name = "T2"
    /\ ledger[1].retries = max_retries - 1
    /\ skipped # <<>>

\* the step invokes test i of the plan
Invokes(i) == idx' = idx + 1 /\ cur' = i /\ outcome' \in {"pass", "fail"}

\* C37: in a run over a plan of pairwise distinct names, every entry of the
\* retry list has between 0 and max_retries retries left at every moment,
\* so none is decremented below zero, and a test whose entry has no retry
\* left is not invoked again.
C37_RetriesInRange ==
    [][ DistinctNames =>
          /\ \A k \in DOMAIN ledger' :
                0 <= ledger'[k].retries /\ ledger'[k].retries <= max_retries
          /\ \A i \in DOMAIN plan :
                (\E k \in DOMAIN ledger :
                    ledger[k].test_name = plan[i].name /\ ledger[k].retries = 0)
                => ~Invokes(i) ]_vars

\* a run of two tests has ended with a test that used up its retry
C37_Witness ==
    /\ pc = "done"
    /\ DistinctNames
    /\ Len(plan) = 2
    /\ max_retries = 1
    /\ \E k \in DOMAIN ledger : ledger[k].retries = 0
    /\ \E i \in DOMAIN plan : invocations[i] = 2 /\ In(plan[i].name, failed)

\* C38: in a run over a plan of pairwise distinct names, a name that is in
\* passed stays in passed, its test is not invoked again and the name is
\* not in failed afterwards.
C38_PassedIsFinal ==
    [][ DistinctNames =>
          \A i \in DOMAIN plan :
              In(plan[i].name, passed) =>
                  /\ In(plan[i].name, passed')
                  /\ ~Invokes(i)
                  /\ ~In(plan[i].name, failed') ]_vars

\* a test passed in a retry pass while the other test went on failing
C38_Witness ==
    /\ pc = "done"
    /\ DistinctNames
    /\ \E i, j \in DOMAIN plan :
          /\ In(plan[i].name, passed)
          /\ invocations[i] = 2
          /\ In(plan[j].name, failed)
          /\ invocations[j] = 2

\* C39: in a run over a plan of pairwise distinct names, no name is more
\* than once in passed, in failed or in skipped.
C39_NoDuplicates ==
    DistinctNames =>
        \A n \in Names :
            /\ Count(n, passed) <= 1
            /\ Count(n, failed) <= 1
            /\ Count(n, skipped) <= 1

\* the entries of retry list l of other names than n, in their order
OtherEntries(l, n) == SelectSeq(l, LAMBDA e : e.test_name # n)

\* C40: register_skip changes nothing but skipped; register_fail changes
\* neither passed nor skipped; register_pass does not change skipped, nor
\* which other names are in failed, nor the retry entries of other names.
C40_Frame ==
    pc = "observed" =>
        /\ outcome = "skip" =>
              /\ passed = before.pass_test_name_list
              /\ failed = before.fail_test_name_list
              /\ ledger = before.retry_test_list
              /\ max_retries = before.max_retries
        /\ outcome = "fail" =>
              /\ passed = before.pass_test_name_list
              /\ skipped = before.skip_test_name_list
        /\ outcome = "pass" =>
              /\ skipped = before.skip_test_name_list
              /\ \A n \in Names \ {arg} :
                    /\ In(n, failed) <=> In(n, before.fail_test_name_list)
                    /\ Count(n, failed) = Count(n, before.fail_test_name_list)
              /\ OtherEntries(ledger, arg) = OtherEntries(before.retry_test_list, arg)

\* a skip of a name that is in failed with a retry entry, next to the
\* entry of another name
C40_Witness ==
    /\ pc = "observed"
    /\ outcome = "skip"
    /\ In(arg, failed)
    /\ Len(ledger) = 2
    /\ In(arg, skipped)

====
